---------------------------- MODULE Spec2Model ----------------------------
(***************************************************************************)
(* Night sky identifier: the astronomy engine (src/astronomy.js) and the   *)
(* sky queries of the five app classes built on it                         *)
(*   NightSkyApp      src/app.js                                           *)
(*   NightSkyMap      src/sky-map-app.js and src/sky-map-improved.js       *)
(*   NightSkyMapZoom  src/sky-map-zoom.js and src/unnamed/part_000         *)
(*                                                                         *)
(* Numbers.  JavaScript numbers are IEEE doubles; the model keeps them as  *)
(* fixed-point integers and rounds after every operation, as the floating  *)
(* point unit does:                                                        *)
(*   angles                  millidegrees        (1 degree   = 1000)       *)
(*   sines, cosines, ratios  1/10000             (1.0        = Scale)      *)
(*   Julian dates, times     centidays           (1 day      = 100)        *)
(*   magnitudes              1/100 magnitude     (1.0 mag    = 100)        *)
(* NaN, +Infinity, -Infinity and null are kept as values of their own, and *)
(* every operation treats them as JavaScript does.                         *)
(***************************************************************************)
EXTENDS Integers, Sequences, FiniteSets, TLC

(***************************************************************************)
(* Number representation                                                   *)
(***************************************************************************)
Scale == 10 ^ 4
NaN == 0 - 2 ^ 30
PosInf == 2 ^ 30
NegInf == 1 - 2 ^ 30
Null == 2 - 2 ^ 30
Undefined == 3 - 2 ^ 30
\* a member that every object inherits from Object.prototype (constructor,
\* toString, ...): a function, not a number
Inherited == 4 - 2 ^ 30

IsFinite(x) == x \notin {NaN, PosInf, NegInf, Null, Undefined, Inherited}

\* ToNumber of the language: null converts to 0 in arithmetic, undefined
\* and a function to NaN.
ToNumber(x) == IF x = Null THEN 0
               ELSE IF x \in {Undefined, Inherited} THEN NaN ELSE x

Abs(x) == IF x < 0 THEN 0 - x ELSE x

\* a / b rounded to the nearest integer (b > 0), halves away from zero.
RDiv(a, b) == IF a >= 0 THEN (2 * a + b) \div (2 * b)
              ELSE 0 - ((2 * (0 - a) + b) \div (2 * b))

\* The remainder operator %: truncated, the result has the sign of the
\* dividend (-30 % 360 is -30).
JsMod(a, m) == IF a = NaN THEN NaN
               ELSE IF a >= 0 THEN a % m ELSE 0 - ((0 - a) % m)

NAdd(a, b) == IF a = NaN \/ b = NaN THEN NaN ELSE a + b
NSub(a, b) == IF a = NaN \/ b = NaN THEN NaN ELSE a - b
NNeg(a) == IF a = NaN THEN NaN ELSE 0 - a

\* Product of two 1/Scale values, rounded back to 1/Scale.
NMul(a, b) == IF a = NaN \/ b = NaN THEN NaN ELSE RDiv(a * b, Scale)

\* c * m / d rounded, for m >= 0: c = q * d + r and m = m1 * d + m0 give
\* q * m + r * m1 + r * m0 / d, where only the last term is rounded and no
\* product leaves the range of the integers.
CoefTimes(c, d, m) ==
    (c \div d) * m + (c % d) * (m \div d) + RDiv((c % d) * (m % d), d)

\* coefficient c/d times n, rounded.
NCoef(c, d, n) == IF n = NaN THEN NaN
                  ELSE IF n >= 0 THEN CoefTimes(c, d, n)
                  ELSE 0 - CoefTimes(c, d, 0 - n)

\* Quotient of two 1/Scale values in 1/Scale; x/0 is an infinity and 0/0 is
\* NaN.
NDiv(a, b) ==
    IF a = NaN \/ b = NaN THEN NaN
    ELSE IF b = 0 THEN (IF a = 0 THEN NaN ELSE IF a > 0 THEN PosInf ELSE NegInf)
    ELSE IF b > 0 THEN RDiv(a * Scale, b)
    ELSE RDiv((0 - a) * Scale, 0 - b)

\* a > b of the language: false as soon as one side is NaN.
NGt(a, b) ==
    /\ a # NaN
    /\ b # NaN
    /\ IF a = PosInf THEN b # PosInf
       ELSE IF b = NegInf THEN a # NegInf
       ELSE IF a = NegInf \/ b = PosInf THEN FALSE
       ELSE a > b
NLt(a, b) == NGt(b, a)

\* Math.min / Math.max: NaN if either argument is NaN.
MathMin(a, b) == IF a = NaN \/ b = NaN THEN NaN ELSE IF NLt(b, a) THEN b ELSE a
MathMax(a, b) == IF a = NaN \/ b = NaN THEN NaN ELSE IF NGt(b, a) THEN b ELSE a

(***************************************************************************)
(* Math.sin, Math.cos, Math.tan, Math.asin, Math.acos, Math.atan2 on       *)
(* angles in millidegrees (deg2rad / rad2deg are folded into them): a      *)
(* table at whole degrees, linear in between.                              *)
(***************************************************************************)
SinTable ==
   << 0, 175, 349, 523, 698, 872, 1045, 1219, 1392, 1564,
      1736, 1908, 2079, 2250, 2419, 2588, 2756, 2924, 3090, 3256,
      3420, 3584, 3746, 3907, 4067, 4226, 4384, 4540, 4695, 4848,
      5000, 5150, 5299, 5446, 5592, 5736, 5878, 6018, 6157, 6293,
      6428, 6561, 6691, 6820, 6947, 7071, 7193, 7314, 7431, 7547,
      7660, 7771, 7880, 7986, 8090, 8192, 8290, 8387, 8480, 8572,
      8660, 8746, 8829, 8910, 8988, 9063, 9135, 9205, 9272, 9336,
      9397, 9455, 9511, 9563, 9613, 9659, 9703, 9744, 9781, 9816,
      9848, 9877, 9903, 9925, 9945, 9962, 9976, 9986, 9994, 9998,
      10000 >>

TanTable ==
   << 0, 175, 349, 524, 699, 875, 1051, 1228, 1405, 1584,
      1763, 1944, 2126, 2309, 2493, 2679, 2867, 3057, 3249, 3443,
      3640, 3839, 4040, 4245, 4452, 4663, 4877, 5095, 5317, 5543,
      5774, 6009, 6249, 6494, 6745, 7002, 7265, 7536, 7813, 8098,
      8391, 8693, 9004, 9325, 9657, 10000 >>

\* sine of an angle a in [0, 90000]
SinQ(a) ==
    LET d == a \div 1000
        r == a % 1000
    IN  IF r = 0 THEN SinTable[d + 1]
        ELSE SinTable[d + 1] + RDiv((SinTable[d + 2] - SinTable[d + 1]) * r, 1000)

MathSin(a) ==
    IF ~IsFinite(a) THEN NaN
    ELSE LET m == a % 360000
         IN  IF m <= 90000 THEN SinQ(m)
             ELSE IF m <= 180000 THEN SinQ(180000 - m)
             ELSE IF m <= 270000 THEN 0 - SinQ(m - 180000)
             ELSE 0 - SinQ(360000 - m)

MathCos(a) == IF ~IsFinite(a) THEN NaN ELSE MathSin(a + 90000)

MathTan(a) == NDiv(MathSin(a), MathCos(a))

\* inverse of a table that rises strictly from 0: the angle in millidegrees
\* whose table value is x, 0 <= x <= last entry.  Bisect finds the entry d
\* with T[d] <= x < T[d + 1] between lo and hi; Halve is one step of it on
\* the range r, and seven steps bring a range of up to 128 entries to one.
Halve(T, x, r) ==
    IF r[1] = r[2] THEN r
    ELSE IF T[(r[1] + r[2] + 1) \div 2] <= x
    THEN << (r[1] + r[2] + 1) \div 2, r[2] >>
    ELSE << r[1], (r[1] + r[2] + 1) \div 2 - 1 >>

Bisect(T, x, lo, hi) ==
    Halve(T, x, Halve(T, x, Halve(T, x, Halve(T, x, Halve(T, x, Halve(T, x,
        Halve(T, x, << lo, hi >>)))))))[1]

InvTable(T, x) ==
    IF x = T[Len(T)] THEN (Len(T) - 1) * 1000
    ELSE LET d == Bisect(T, x, 1, Len(T) - 1)
         IN  (d - 1) * 1000 + RDiv((x - T[d]) * 1000, T[d + 1] - T[d])

\* Math.asin: NaN outside [-1, 1]
MathAsin(x) ==
    IF ~IsFinite(x) \/ Abs(x) > Scale THEN NaN
    ELSE IF x >= 0 THEN InvTable(SinTable, x) ELSE 0 - InvTable(SinTable, 0 - x)

\* Math.acos: NaN outside [-1, 1]
MathAcos(x) == NSub(90000, MathAsin(x))

\* atan of a ratio p/q with 0 <= p, 0 < q or 0 < p: in [0, 90000]
AtanQ(p, q) ==
    IF p <= q THEN InvTable(TanTable, RDiv(p * Scale, q))
    ELSE 90000 - InvTable(TanTable, RDiv(q * Scale, p))

\* Math.atan2(y, x), in (-180000, 180000]
MathAtan2(y, x) ==
    IF y = NaN \/ x = NaN THEN NaN
    ELSE IF x = 0 /\ y = 0 THEN 0
    ELSE IF x >= 0 /\ y >= 0 THEN AtanQ(y, x)
    ELSE IF x < 0 /\ y >= 0 THEN 180000 - AtanQ(y, 0 - x)
    ELSE IF x < 0 THEN AtanQ(0 - y, 0 - x) - 180000
    ELSE 0 - AtanQ(0 - y, x)

(***************************************************************************)
(* class Astronomy                                                         *)
(***************************************************************************)
\* this.J2000 = 2451545.0, in centidays
J2000 == 245154500

\* the Julian Date of the Unix epoch, 2440587.5, in centidays
UnixEpochJD == 244058750

\* getJulianDate(date): date.getTime() / 86400000 + 2440587.5.  t is
\* date.getTime() in centidays; an invalid Date has getTime() = NaN.
getJulianDate(t) == NAdd(t, UnixEpochJD)

\* 280.46061837 + 360.98564736629 * (jd - J2000) + 0.000387933 * T * T
\*   - T * T * T / 38710000, for n = jd - J2000; T = n / 36525 is kept in
\* 1/10^6 century
SiderealAngle(n) ==
    LET T == NCoef(10000, 36525, n)
        T2 == IF T = NaN THEN NaN ELSE RDiv(T * T, 1000000)
        T3 == IF T = NaN THEN NaN ELSE RDiv(T2 * T, 1000000)
    IN  NSub(NAdd(NAdd(280461, NAdd(NCoef(3609, 1, n), NCoef(8565, 10000, n))),
                  NCoef(388, 1000000000, T2)),
             NCoef(1, 38710000, T3))

\* Doubles lie further apart the larger they are: those between 256 and 512
\* are four times as far apart as those between 64 and 128, so the sum of a
\* small number and 360 is rounded to the coarser spacing, a tie to the even
\* neighbour.  The model keeps that in scale: below FloatFine every
\* millidegree is a number, from there on only every second one.
FloatFine == 2 ^ 18

\* x rounded to the nearest number of the model
FloatRound(x) ==
    IF Abs(x) < FloatFine \/ x % 2 = 0 THEN x
    ELSE IF ((x + 1) \div 2) % 2 = 0 THEN x + 1 ELSE x - 1

\* a + b of doubles: the exact sum, rounded
FAdd(a, b) == IF a = NaN \/ b = NaN THEN NaN ELSE FloatRound(a + b)

\* if (lst < 0) lst += 360
NonNegativeAngle(lst) == IF NLt(lst, 0) THEN FAdd(lst, 360000) ELSE lst

\* the same with the longitude left out: the sidereal time of Greenwich
getLocalSiderealTimeGreenwich(jd, lon) ==
    NonNegativeAngle(JsMod(SiderealAngle(NSub(jd, J2000)), 360000))

\* getLocalSiderealTime(jd, longitude)
getLocalSiderealTime(jd, lon) ==
    NonNegativeAngle(JsMod(NAdd(SiderealAngle(NSub(jd, J2000)), ToNumber(lon)),
                           360000))

\* sin(dec) * sin(lat) + cos(dec) * cos(lat) * cos(ha)
SinAltitude(dec, latD, ha) ==
    NAdd(NMul(MathSin(dec), MathSin(latD)),
         NMul(NMul(MathCos(dec), MathCos(latD)), MathCos(ha)))

\* (sin(dec) - sin(lat) * sinAlt) / (cos(lat) * cos(altitude))
CosAzimuth(dec, latD, sinAlt, altitude) ==
    NDiv(NSub(MathSin(dec), NMul(MathSin(latD), sinAlt)),
         NMul(MathCos(latD), MathCos(altitude)))

\* acos(max(-1, min(1, cosAz))); if (sin(ha) > 0) azimuth = 360 - azimuth
Azimuth(cosAz, ha) ==
    IF NGt(MathSin(ha), 0)
    THEN NSub(360000, MathAcos(MathMax(0 - Scale, MathMin(Scale, cosAz))))
    ELSE MathAcos(MathMax(0 - Scale, MathMin(Scale, cosAz)))

HorizontalOfSinAlt(dec, latD, ha, sinAlt) ==
    [altitude |-> MathAsin(sinAlt),
     azimuth  |-> Azimuth(CosAzimuth(dec, latD, sinAlt, MathAsin(sinAlt)), ha)]

HorizontalAt(dec, latD, ha) ==
    HorizontalOfSinAlt(dec, latD, ha, SinAltitude(dec, latD, ha))

\* equatorialToHorizontal with the latitude brought into [-90, 90] first
equatorialToHorizontalClamped(ra, dec, lat, lon, jd) ==
    HorizontalAt(dec, MathMax(-90000, MathMin(90000, ToNumber(lat))),
                 NSub(getLocalSiderealTime(jd, lon), ra))

\* equatorialToHorizontal(ra, dec, lat, lon, jd)
equatorialToHorizontal(ra, dec, lat, lon, jd) ==
    HorizontalAt(dec, ToNumber(lat), NSub(getLocalSiderealTime(jd, lon), ra))

\* ra = atan2(cos(epsilon) * sin(lambda), cos(lambda)), (ra + 360) % 360;
\* dec = asin(sin(epsilon) * sin(lambda))
SunEquatorial(lambda, epsilon) ==
    [ra  |-> JsMod(NAdd(MathAtan2(NMul(MathCos(epsilon), MathSin(lambda)),
                                  MathCos(lambda)),
                        360000),
                   360000),
     dec |-> MathAsin(NMul(MathSin(epsilon), MathSin(lambda)))]

\* lambda = L + 1.915 * sin(g) + 0.020 * sin(2 * g)
SunLongitude(L, g) ==
    NAdd(NAdd(L, NCoef(1915, Scale, MathSin(g))),
         NCoef(20, Scale, MathSin(NCoef(2, 1, g))))

\* L = (280.460 + 0.9856474 * n) % 360, g = (357.528 + 0.9856003 * n) % 360,
\* epsilon = 23.439 - 0.0000004 * n
SunAt(n) ==
    SunEquatorial(SunLongitude(JsMod(NAdd(280460, NCoef(98565, 10000, n)), 360000),
                               JsMod(NAdd(357528, NCoef(98560, 10000, n)), 360000)),
                  NSub(23439, NCoef(4, 1000000, n)))

\* getSunPosition(jd)
getSunPosition(jd) == SunAt(NSub(jd, J2000))

\* ra = atan2(sin(lambda) * cos(epsilon) - tan(beta) * sin(epsilon),
\*            cos(lambda)), (ra + 360) % 360;
\* dec = asin(sin(beta) * cos(epsilon) + cos(beta) * sin(epsilon) * sin(lambda))
MoonEquatorial(lambda, moonBeta, epsilon) ==
    [ra  |-> JsMod(NAdd(MathAtan2(NSub(NMul(MathSin(lambda), MathCos(epsilon)),
                                       NMul(MathTan(moonBeta), MathSin(epsilon))),
                                  MathCos(lambda)),
                        360000),
                   360000),
     dec |-> MathAsin(NAdd(NMul(MathSin(moonBeta), MathCos(epsilon)),
                           NMul(NMul(MathCos(moonBeta), MathSin(epsilon)),
                                MathSin(lambda))))]

\* L = (218.316 + 13.176396 * n) % 360, M = (134.963 + 13.064993 * n) % 360,
\* F = (93.272 + 13.229350 * n) % 360, lambda = L + 6.289 * sin(M),
\* beta = 5.128 * sin(F), epsilon = 23.439 - 0.0000004 * n
MoonAt(n) ==
    MoonEquatorial(
        NAdd(JsMod(NAdd(218316, NCoef(1317640, 10000, n)), 360000),
             NCoef(6289, Scale,
                   MathSin(JsMod(NAdd(134963, NCoef(1306499, 10000, n)), 360000)))),
        NCoef(5128, Scale,
              MathSin(JsMod(NAdd(93272, NCoef(1322935, 10000, n)), 360000))),
        NSub(23439, NCoef(4, 1000000, n)))

\* getMoonPosition(jd)
getMoonPosition(jd) == MoonAt(NSub(jd, J2000))

\* (1 - cos(phase)) / 2, in 1/Scale
Illumination(phase) ==
    IF phase = NaN THEN NaN ELSE RDiv(Scale - MathCos(phase), 2)

\* let phase = moon.ra - sun.ra
MoonSunDifference(jd) ==
    NSub(getMoonPosition(jd).ra, getSunPosition(jd).ra)

\* if (phase < 0) phase += 360
MoonPhaseAngle(jd) == NonNegativeAngle(MoonSunDifference(jd))

\* the same two statements for the right ascensions sunRa and moonRa that
\* getSunPosition and getMoonPosition returned
PhaseBetween(sunRa, moonRa) == NonNegativeAngle(NSub(moonRa, sunRa))

\* getMoonPhase(jd)
getMoonPhase(jd) == Illumination(MoonPhaseAngle(jd))

\* The names the app classes ask for (this.planets), in their order.
PLANETS == << "Mercury", "Venus", "Mars", "Jupiter", "Saturn" >>

\* The orbital elements of getPlanetPosition: L0 in millidegrees, w in
\* 1/10000 millidegree per centiday, i in millidegrees.
planets ==
    [ Mercury |-> [L0 |-> 252250, w |-> 409233, i |-> 7000],
      Venus   |-> [L0 |-> 181980, w |-> 160214, i |-> 3390],
      Mars    |-> [L0 |-> 355430, w |-> 52407,  i |-> 1850],
      Jupiter |-> [L0 |-> 34350,  w |-> 8309,   i |-> 1310],
      Saturn  |-> [L0 |-> 50080,  w |-> 3346,   i |-> 2490] ]

\* The table of getPlanetMagnitude, in 1/100 magnitude.
magnitudes ==
    [ Mercury |-> 0, Venus |-> -400, Mars |-> 50, Jupiter |-> -250,
      Saturn |-> 50 ]

\* A value is truthy unless it is 0, NaN, null or undefined.
Truthy(x) == x \notin {0, NaN, Null, Undefined}

\* Names that every object literal answers to without having them as own
\* properties.
ObjectPrototypeNames ==
    { "constructor", "toString", "valueOf", "hasOwnProperty", "__proto__" }

\* table[name] of an object literal of numbers or records
Lookup(table, name) ==
    IF name \in DOMAIN table THEN table[name]
    ELSE IF name \in ObjectPrototypeNames THEN Inherited
    ELSE Undefined

\* getPlanetMagnitude(planet) without the default
getPlanetMagnitudeNoDefault(planet) == Lookup(magnitudes, planet)

\* getPlanetMagnitude(planet): magnitudes[planet] || 5
getPlanetMagnitude(planet) ==
    IF Truthy(Lookup(magnitudes, planet)) THEN Lookup(magnitudes, planet)
    ELSE 500

\* What getPlanetPosition returns for a name that is not in its table: null.
NoSuchBody == [null |-> TRUE]

\* planets[planet] is something: an entry of the table or an inherited
\* member (both are objects, and so truthy)
HasMember(table, name) == name \in DOMAIN table \cup ObjectPrototypeNames

\* the same with the declination taken a thousandfold instead of tenfold
PlanetAtSteep(planet, p, n) ==
    [ra  |-> JsMod(NAdd(p.L0, NCoef(p.w, 10000, n)), 360000),
     dec |-> NCoef(1000 * 1000, Scale,
                   NMul(MathSin(p.i),
                        MathSin(JsMod(NAdd(p.L0, NCoef(p.w, 10000, n)), 360000)))),
     magnitude |-> getPlanetMagnitude(planet)]

\* L = (p.L0 + p.w * n) % 360; ra = L; dec = sin(i) * sin(L) * 10
PlanetAt(planet, p, n) ==
    [ra  |-> JsMod(NAdd(p.L0, NCoef(p.w, 10000, n)), 360000),
     dec |-> NCoef(10 * 1000, Scale,
                   NMul(MathSin(p.i),
                        MathSin(JsMod(NAdd(p.L0, NCoef(p.w, 10000, n)), 360000)))),
     magnitude |-> getPlanetMagnitude(planet)]

\* the same for an inherited member p: p.L0, p.w and p.i are undefined
InheritedAt(planet) ==
    [ra |-> NaN, dec |-> NaN, magnitude |-> getPlanetMagnitude(planet)]

\* getPlanetPosition(planet, jd) with a default in the place of null
getPlanetPositionDefault(planet, jd) ==
    IF ~HasMember(planets, planet)
    THEN [ra |-> 0, dec |-> 0, magnitude |-> getPlanetMagnitude(planet)]
    ELSE IF planet \in DOMAIN planets
    THEN PlanetAt(planet, planets[planet], NSub(jd, J2000))
    ELSE InheritedAt(planet)

\* getPlanetPosition(planet, jd): if (!planets[planet]) return null
getPlanetPosition(planet, jd) ==
    IF ~HasMember(planets, planet) THEN NoSuchBody
    ELSE IF planet \in DOMAIN planets
    THEN PlanetAt(planet, planets[planet], NSub(jd, J2000))
    ELSE InheritedAt(planet)

(***************************************************************************)
(* The star catalog: name, RA in millihours, Dec in millidegrees,          *)
(* magnitude in 1/100, spectral class.                                     *)
(***************************************************************************)
STAR_CATALOG ==
   <<
      <<"Sirius", 6752, -16716, -146, "A1V">>,
      <<"Canopus", 6399, -52696, -72, "F0Ib">>,
      <<"Arcturus", 14261, 19182, -4, "K1.5III">>,
      <<"Rigel Kentaurus", 14661, -60833, -1, "G2V">>,
      <<"Vega", 18615, 38783, 3, "A0V">>,
      <<"Capella", 5278, 45998, 8, "G8III">>,
      <<"Rigel", 5242, -8202, 12, "B8Ia">>,
      <<"Procyon", 7655, 5225, 38, "F5IV">>,
      <<"Achernar", 1629, -57237, 46, "B3V">>,
      <<"Betelgeuse", 5919, 7407, 50, "M2Iab">>,
      <<"Hadar", 14063, -60373, 61, "B1III">>,
      <<"Altair", 19846, 8868, 77, "A7V">>,
      <<"Aldebaran", 4599, 16509, 85, "K5III">>,
      <<"Spica", 13420, -11161, 104, "B1V">>,
      <<"Antares", 16490, -26432, 109, "M1.5Iab">>,
      <<"Pollux", 7755, 28026, 114, "K0III">>,
      <<"Fomalhaut", 22961, -29622, 116, "A3V">>,
      <<"Deneb", 20690, 45280, 125, "A2Ia">>,
      <<"Mimosa", 12795, -59689, 130, "B0.5III">>,
      <<"Regulus", 10139, 11967, 135, "B7V">>,
      <<"Adhara", 6977, -28972, 150, "B2II">>,
      <<"Castor", 7577, 31888, 157, "A1V">>,
      <<"Shaula", 17560, -37104, 162, "B2IV">>,
      <<"Bellatrix", 5419, 6350, 164, "B2III">>,
      <<"Elnath", 5438, 28608, 165, "B7III">>,
      <<"Miaplacidus", 9220, -69717, 168, "A2IV">>,
      <<"Alnilam", 5603, -1202, 169, "B0Ia">>,
      <<"Alnitak", 5679, -1943, 170, "O9Ib">>,
      <<"Alnair", 22137, -46961, 174, "B7IV">>,
      <<"Alioth", 12900, 55960, 177, "A0pCr">>,
      <<"Dubhe", 11062, 61751, 179, "K1III">>,
      <<"Mirfak", 3405, 49861, 179, "F5Ib">>,
      <<"Wezen", 7140, -26393, 184, "F8Ia">>,
      <<"Alkaid", 13792, 49313, 186, "B3V">>,
      <<"Sargas", 17621, -42998, 187, "F1II">>,
      <<"Avior", 8375, -59509, 186, "K3III">>,
      <<"Menkalinan", 6008, 44947, 190, "A2V">>,
      <<"Atria", 16811, -69028, 192, "K2IIb">>,
      <<"Alhena", 6628, 16399, 193, "A0IV">>,
      <<"Peacock", 20427, -56735, 194, "B2IV">>,
      <<"Polaris", 2530, 89264, 198, "F7Ib">>,
      <<"Mirzam", 6378, -17956, 198, "B1II">>,
      <<"Alphard", 9460, -8659, 198, "K3II">>,
      <<"Hamal", 2120, 23462, 200, "K2III">>,
      <<"Kaus Australis", 18403, -34385, 202, "B9.5III">>,
      <<"Algieba", 10332, 19842, 208, "K1III">>,
      <<"Diphda", 726, -17987, 204, "K0III">>,
      <<"Nunki", 18921, -26297, 205, "B2.5V">>,
      <<"Mizar", 13397, 54925, 204, "A2V">>,
      <<"Scheat", 23063, 28083, 242, "M2.5II">>
   >>

\* CONSTELLATIONS: lines of catalog indices (0-based, as in the source).
CONSTELLATIONS ==
    [ UrsaMajor  |-> << <<0, 30>>, <<30, 33>>, <<33, 29>>, <<29, 0>>, <<30, 48>> >>,
      Orion      |-> << <<6, 9, 24>>, <<24, 26, 27>>, <<9, 26>> >>,
      Cassiopeia |-> << <<40, 41, 46, 50, 51>> >>,
      Leo        |-> << <<19, 44>> >>,
      Scorpius   |-> << <<14, 43, 23>> >> ]

\* CONSTELLATIONS_EXTENDED of constellations-extended.js as written: the
\* lines of each entry (description, mainStars and mythology are texts that
\* nothing computes with).
CONSTELLATIONS_EXTENDED ==
    [ UrsaMajor  |-> << <<30, 33>>, <<33, 29>>, <<29, 0>>, <<0, 30>>, <<30, 48>> >>,
      Orion      |-> << <<6, 9>>, <<9, 24>>, <<24, 26>>, <<26, 27>>, <<27, 6>>,
                        <<9, 26>> >>,
      Cassiopeia |-> << <<40, 41>>, <<41, 46>>, <<46, 50>>, <<50, 51>> >>,
      Leo        |-> << <<19, 44>>, <<19, 45>> >>,
      Scorpius   |-> << <<14, 23>>, <<23, 43>> >>,
      Lyra       |-> << <<4, 4>> >>,
      Cygnus     |-> << <<17, 17>> >>,
      Aquila     |-> << <<11, 11>> >>,
      Taurus     |-> << <<12, 12>> >>,
      Gemini     |-> << <<15, 21>> >> ]

\* The merge at the end of constellations-extended.js: an entry whose name
\* CONSTELLATIONS has gets the lines of CONSTELLATIONS, the others keep
\* their own.
MergedLines ==
    [ name \in DOMAIN CONSTELLATIONS_EXTENDED |->
        IF name \in DOMAIN CONSTELLATIONS THEN CONSTELLATIONS[name]
        ELSE CONSTELLATIONS_EXTENDED[name] ]

\* raHoursToDegrees(hours): hours * 15
raHoursToDegrees(hours) == hours * 15

\* the same with the right ascension left in hours
StarsOfHours(catalog) ==
    [ index \in 1..Len(catalog) |->
        [ id            |-> index - 1,
          name          |-> catalog[index][1],
          ra            |-> catalog[index][2],
          dec           |-> catalog[index][3],
          magnitude     |-> catalog[index][4],
          spectralClass |-> catalog[index][5] ] ]

\* STAR_CATALOG.map((star, index) => ({ ... })) on the catalog as it is in
\* memory: one new record per entry, in catalog order
StarsOf(catalog) ==
    [ index \in 1..Len(catalog) |->
        [ id            |-> index - 1,
          name          |-> catalog[index][1],
          ra            |-> raHoursToDegrees(catalog[index][2]),
          dec           |-> catalog[index][3],
          magnitude     |-> catalog[index][4],
          spectralClass |-> catalog[index][5] ] ]

\* getStars() on the catalog as written in the source
getStars == StarsOf(STAR_CATALOG)

\* The tables in memory when script loading has finished: the two of
\* astronomy.js, and CONSTELLATIONS_EXTENDED after its merge.
LoadedTables ==
    [ STAR_CATALOG            |-> STAR_CATALOG,
      CONSTELLATIONS          |-> CONSTELLATIONS,
      CONSTELLATIONS_EXTENDED |-> MergedLines ]

(***************************************************************************)
(* The app classes.  One instance is modelled at a time; app names the     *)
(* source file of its class.                                               *)
(***************************************************************************)
AppJs == "app.js"
SkyMapAppJs == "sky-map-app.js"
SkyMapImprovedJs == "sky-map-improved.js"
SkyMapZoomJs == "sky-map-zoom.js"
Part000 == "part_000"
Apps == {AppJs, SkyMapAppJs, SkyMapImprovedJs, SkyMapZoomJs, Part000}

VARIABLES
    app,            \* which class this instance is
    clock,          \* the system clock, Date.now(), in centidays
    latitude,       \* this.latitude  (null until the location callback)
    longitude,      \* this.longitude
    stars,          \* this.stars
    alpha,          \* this.alpha          (NightSkyApp)
    beta,           \* this.beta           (NightSkyApp)
    compassHeading, \* this.compassHeading (the map classes)
    useWebkit,      \* this.useWebkit      (sky-map-improved.js)
    absoluteAvailable, \* let absoluteAvailable of startOrientationTracking
                       \* (sky-map-improved.js)
    objects,        \* this.visibleObjects / this.allObjects
    frame,          \* what the last rendered frame read from the clock
    tables,         \* the global tables STAR_CATALOG, CONSTELLATIONS and
                    \* CONSTELLATIONS_EXTENDED as they are in memory
    gesture,        \* the view fields of NightSkyMapZoom: zoomLevel, panX,
                    \* panY, isDragging, lastTouchX, lastTouchY,
                    \* lastPinchDistance, focusMode, constellationsInView,
                    \* selectedConstellation
    touch,          \* the fingers on the canvas (e.touches), what the
                    \* gesture under way has been so far, and how many
                    \* touch events and clicks there have been (delta: what the
                    \* last pinch move changed the finger distance by)
    life,           \* the start-up and the animation loop: the
                    \* initialisations begun by clicks on the start button,
                    \* this.animationId, the frames requested and not yet
                    \* run, and what has been shown
    heard,          \* what the orientation listeners of NightSkyMap have
                    \* been handed: the last event, and the alpha of the
                    \* last deviceorientationabsolute event that had one
    call            \* the last call made to the Astronomy engine on its own

vars == << app, clock, latitude, longitude, stars, alpha, beta,
           compassHeading, useWebkit, absoluteAvailable, objects, frame,
           tables, gesture, touch, life, heard, call >>

\* this.fov = 60
fov == 60000

\* this.compassOffset = 0: never assigned after the constructor
compassOffset == 0

\* magnitude: -12.74 of the Moon object
MoonMagnitude == -1274

\* angleDifference(a, b)
RECURSIVE WhileAbove(_), WhileBelow(_)
WhileAbove(diff) == IF NGt(diff, 180000) THEN WhileAbove(diff - 360000) ELSE diff
WhileBelow(diff) == IF NLt(diff, -180000) THEN WhileBelow(diff + 360000) ELSE diff
angleDifference(a, b) == WhileBelow(WhileAbove(NSub(a, b)))

MathAbs(x) == IF x = NaN THEN NaN ELSE Abs(x)

\* (a, b) => a.magnitude - b.magnitude
CompareMagnitude(a, b) == NSub(a.magnitude, b.magnitude)

\* Array.prototype.sort(compare): ascending by the comparator, and elements
\* that compare equal keep their order (the sort is stable).  Before(a, j, i)
\* says that a[j] comes out in front of a[i]; an element's place in the
\* result is one more than the number of elements in front of it.
Before(a, j, i) ==
    \/ NLt(CompareMagnitude(a[j], a[i]), 0)
    \/ (j < i /\ ~NGt(CompareMagnitude(a[j], a[i]), 0))

\* an unstable sort: of two elements that compare equal the later comes first
BeforeUnstable(a, j, i) ==
    \/ NLt(CompareMagnitude(a[j], a[i]), 0)
    \/ (j > i /\ ~NGt(CompareMagnitude(a[j], a[i]), 0))

Placed(a, place) ==
    [p \in 1..Len(a) |-> a[CHOOSE i \in 1..Len(a) : place[i] = p]]

SortByMagnitudeUnstable(a) ==
    Placed(a, [i \in 1..Len(a) |->
                  1 + Cardinality({j \in 1..Len(a) : BeforeUnstable(a, j, i)})]
              @@ << >>)

SortByMagnitudeNone(a) == a

SortByMagnitude(a) ==
    Placed(a, [i \in 1..Len(a) |->
                  1 + Cardinality({j \in 1..Len(a) : Before(a, j, i)})]
              @@ << >>)

\* a test that lets every object through
AboveHorizonAlways(pos) == TRUE

\* if (pos.altitude > 0): only objects above the horizon are pushed
AboveHorizon(pos) == NGt(pos.altitude, 0)

\* One pushed object: the fields taken from the body, and ...pos
StarObject(star, pos, withClass, withIndex) ==
    LET o == [type |-> "star", name |-> star.name, magnitude |-> star.magnitude,
              altitude |-> pos.altitude, azimuth |-> pos.azimuth]
        c == IF withClass THEN [spectralClass |-> star.spectralClass] @@ o ELSE o
    IN  IF withIndex THEN [catalogIndex |-> star.id] @@ c ELSE c

PlanetObject(planetName, planet, pos) ==
    [type |-> "planet", name |-> planetName, magnitude |-> planet.magnitude,
     altitude |-> pos.altitude, azimuth |-> pos.azimuth]

MoonObject(jd, pos) ==
    [type |-> "moon", name |-> "Moon", phase |-> getMoonPhase(jd),
     magnitude |-> MoonMagnitude, altitude |-> pos.altitude,
     azimuth |-> pos.azimuth]

\* The objects of the three loops of a query in the order the loops meet
\* them, before the test that decides whether an object is pushed: every
\* star of ss, every planet getPlanetPosition knows (if (planet)), the Moon.
StarCandidates(ss, lat, lon, jd, withClass, withIndex) ==
    [i \in 1..Len(ss) |->
        StarObject(ss[i],
                   equatorialToHorizontal(ss[i].ra, ss[i].dec, lat, lon, jd),
                   withClass, withIndex)]

PlanetCandidate(planetName, planet, lat, lon, jd) ==
    PlanetObject(planetName, planet,
                 equatorialToHorizontal(planet.ra, planet.dec, lat, lon, jd))

PlanetCandidates(lat, lon, jd) ==
    LET known == SelectSeq(PLANETS,
                           LAMBDA name : getPlanetPosition(name, jd) # NoSuchBody)
    IN  [i \in 1..Len(known) |->
            PlanetCandidate(known[i], getPlanetPosition(known[i], jd),
                            lat, lon, jd)]

MoonCandidate(moon, lat, lon, jd) ==
    MoonObject(jd, equatorialToHorizontal(moon.ra, moon.dec, lat, lon, jd))

MoonCandidates(lat, lon, jd) ==
    << MoonCandidate(getMoonPosition(jd), lat, lon, jd) >>

\* NightSkyApp: the object is pushed only if it is above the horizon and
\* within fov of the view direction on both axes.
InFieldOfView(pos, viewAzimuth, viewAltitude) ==
    LET azDiff == MathAbs(angleDifference(pos.azimuth, viewAzimuth))
        altDiff == MathAbs(NSub(pos.altitude, viewAltitude))
    IN  NLt(azDiff, fov) /\ NLt(altDiff, fov)

\* NightSkyApp.calculateVisibleObjects(): the new this.visibleObjects
calculateVisibleObjects(ss, lat, lon, jd, a, b) ==
    LET viewAzimuth == JsMod(a + compassOffset, 360000)
        viewAltitude == 90000 - Abs(b)
        shown(pos) == AboveHorizon(pos) /\ InFieldOfView(pos, viewAzimuth, viewAltitude)
    IN  SortByMagnitude(
            SelectSeq(StarCandidates(ss, lat, lon, jd, FALSE, FALSE), shown)
            \o SelectSeq(PlanetCandidates(lat, lon, jd), shown)
            \o SelectSeq(MoonCandidates(lat, lon, jd), shown))

\* NightSkyApp.calculateVisibleObjects(): what it leaves in this.stars
\* (star.altitude = pos.altitude; star.azimuth = pos.azimuth)
\* the same with the coordinates written over the star's own
StarWithPositionOverwritten(star, pos) ==
    [star EXCEPT !.ra = pos.azimuth, !.dec = pos.altitude]

StarWithPosition(star, pos) ==
    [altitude |-> pos.altitude, azimuth |-> pos.azimuth] @@ star

\* what calculateVisibleObjects would leave in the tables if the star
\* records were the rows of the catalog themselves
TablesAfterVisibleObjectsShared(tb, ss, lat, lon, jd) ==
    [tb EXCEPT !.STAR_CATALOG =
        [ i \in 1..Len(ss) |->
            << equatorialToHorizontal(ss[i].ra, ss[i].dec, lat, lon, jd).altitude,
               equatorialToHorizontal(ss[i].ra, ss[i].dec, lat, lon, jd).azimuth >>
            \o tb.STAR_CATALOG[i] ]]

\* NightSkyApp.calculateVisibleObjects(): what it leaves in the global
\* tables.  Its two assignments go to the records of this.stars, which
\* getStars made as new objects, and its reads of the tables change nothing.
TablesAfterVisibleObjects(tb, ss, lat, lon, jd) == tb

StarsAfterVisibleObjects(ss, lat, lon, jd) ==
    [i \in 1..Len(ss) |->
        StarWithPosition(ss[i],
                         equatorialToHorizontal(ss[i].ra, ss[i].dec, lat, lon, jd))]

\* calculateAllObjects() of NightSkyMap (both files) and of NightSkyMapZoom
\* (part_000, and sky-map-zoom.js, which has the star loop only); withIndex:
\* the star objects carry catalogIndex
AllObjects(ss, lat, lon, jd, withIndex, withPlanetsAndMoon) ==
    LET pushed(o) == AboveHorizon(o)
    IN  SortByMagnitude(
            SelectSeq(StarCandidates(ss, lat, lon, jd, TRUE, withIndex), pushed)
            \o (IF withPlanetsAndMoon
                THEN SelectSeq(PlanetCandidates(lat, lon, jd), pushed)
                     \o SelectSeq(MoonCandidates(lat, lon, jd), pushed)
                ELSE << >>))

\* calculateAllObjects() with the star loop only in every class
calculateAllObjectsStarsOnly(a, ss, lat, lon, jd) ==
    AllObjects(ss, lat, lon, jd, a \in {SkyMapZoomJs, Part000}, FALSE)

\* calculateAllObjects() of the class in file a
calculateAllObjects(a, ss, lat, lon, jd) ==
    AllObjects(ss, lat, lon, jd, a \in {SkyMapZoomJs, Part000}, a # SkyMapZoomJs)

(***************************************************************************)
(* class NightSkyMapZoom: the zoomed view.  Lengths on the screen are      *)
(* whole pixels, zoomLevel is in 1/ZoomScale.                              *)
(***************************************************************************)
ZoomScale == 1000

\* window.innerWidth and window.innerHeight of setupCanvas (a phone held
\* upright)
CanvasWidth == 360
CanvasHeight == 640

\* this.mapRadius = (size * 0.85) / 2
mapRadius ==
    RDiv((IF CanvasWidth < CanvasHeight THEN CanvasWidth ELSE CanvasHeight) * 85,
         200)

\* this.centerX = window.innerWidth / 2, this.centerY = window.innerHeight / 2
centerX == CanvasWidth \div 2
centerY == CanvasHeight \div 2

\* this.minZoom = 1.0
minZoom == ZoomScale

\* this.maxZoom = 10.0 in part_000, 4.0 in sky-map-zoom.js
maxZoom(a) == IF a = Part000 THEN 10 * ZoomScale ELSE 4 * ZoomScale

\* if (this.zoomLevel < 1.5) of handleTap
TapZoom == 1500

\* if (distance < 40): the tap radius of isPointInConstellation
TapRadius == 40

\* Object.entries(CONSTELLATIONS): the names in the order of the literal
ConstellationEntries ==
    << "UrsaMajor", "Orion", "Cassiopeia", "Leo", "Scorpius" >>

\* skyToScreen(altitude, azimuth) under the zoom and pan of view v and the
\* compass heading: the base position in 1/100 pixel, then zoom and pan
skyToScreen(v, heading, altitude, azimuth) ==
    IF ~IsFinite(altitude) \/ ~IsFinite(azimuth) \/ ~IsFinite(heading)
    THEN [x |-> NaN, y |-> NaN]
    ELSE LET distance == RDiv(mapRadius * (90000 - altitude), 900)
             adjustedAzimuth ==
                 JsMod(azimuth - heading - compassOffset + 360000, 360000)
             baseX == RDiv(distance * MathSin(adjustedAzimuth), Scale)
             baseY == 0 - RDiv(distance * MathCos(adjustedAzimuth), Scale)
         IN  [x |-> RDiv(baseX * v.zoomLevel, 100 * ZoomScale) + centerX + v.panX,
              y |-> RDiv(baseY * v.zoomLevel, 100 * ZoomScale) + centerY + v.panY]

\* isInView(x, y)
isInView(pos) ==
    /\ pos.x # NaN
    /\ pos.y # NaN
    /\ pos.x >= 0
    /\ pos.x <= CanvasWidth
    /\ pos.y >= 0
    /\ pos.y <= CanvasHeight

\* this.allObjects.find(obj => obj.catalogIndex === starIndex): the places
\* in objs of the objects with that catalogIndex
FindStar(objs, starIndex) ==
    { i \in DOMAIN objs : /\ "catalogIndex" \in DOMAIN objs[i]
                          /\ objs[i].catalogIndex = starIndex }

\* the occurrences of star indices in the lines of one constellation
StarOccurrences(lines) ==
    UNION { { << l, k >> : k \in DOMAIN lines[l] } : l \in DOMAIN lines }

\* every star index of the table
TableStars(table) ==
    UNION { { table[name][o[1]][o[2]] : o \in StarOccurrences(table[name]) }
            : name \in DOMAIN table }

\* for every star index of the table, whether find returns an object for it
\* (the first of objs with that catalogIndex) and where skyToScreen puts it
StarsOnScreen(v, heading, objs, table) ==
    [ starIndex \in TableStars(table) |->
        LET found == FindStar(objs, starIndex)
        IN  IF found = {} THEN [found |-> FALSE, x |-> NaN, y |-> NaN]
            ELSE LET star == objs[CHOOSE i \in found : \A j \in found : i <= j]
                 IN  [found |-> TRUE]
                     @@ skyToScreen(v, heading, star.altitude, star.azimuth) ]
    @@ << >>

\* a star at the tap radius itself counted as near
NearStarOrAtRadius(pos, x, y) ==
    /\ pos.found
    /\ pos.x # NaN
    /\ (x - pos.x) * (x - pos.x) + (y - pos.y) * (y - pos.y)
         <= TapRadius * TapRadius

\* if (distance < 40), for a star that is on the screen at pos
NearStar(pos, x, y) ==
    /\ pos.found
    /\ pos.x # NaN
    /\ (x - pos.x) * (x - pos.x) + (y - pos.y) * (y - pos.y)
         < TapRadius * TapRadius

\* isPointInConstellation(x, y, constellationName), the stars being on the
\* screen where onScreen says
isPointInConstellation(onScreen, table, x, y, constellationName) ==
    /\ constellationName \in DOMAIN table
    /\ \E o \in StarOccurrences(table[constellationName]) :
        NearStar(onScreen[table[constellationName][o[1]][o[2]]], x, y)

\* the entry that identifyConstellationsInView pushes for one constellation:
\* visibility is starsInView / totalStars, kept as the two counts
InViewEntry(onScreen, table, name) ==
    LET occurrences == StarOccurrences(table[name])
    IN  [name |-> name,
         starsVisible |->
             Cardinality({ o \in occurrences :
                             LET pos == onScreen[table[name][o[1]][o[2]]]
                             IN  pos.found /\ isInView(pos) }),
         totalStars |-> Cardinality(occurrences)]

\* (a, b) => b.visibility - a.visibility is negative: a goes before b
MoreVisible(a, b) ==
    a.starsVisible * b.totalStars > b.starsVisible * a.totalStars

\* the list left in the order the entries were pushed in
SortByVisibilityNone(a) == a

\* this.constellationsInView.sort(...): descending by visibility, entries of
\* equal visibility in the order they were pushed in
SortByVisibility(a) ==
    Placed(a, [i \in 1..Len(a) |->
                  1 + Cardinality({ j \in 1..Len(a) :
                                      \/ MoreVisible(a[j], a[i])
                                      \/ (j < i /\ ~MoreVisible(a[i], a[j])) })]
              @@ << >>)

\* the list that identifyConstellationsInView leaves, the stars being on the
\* screen where onScreen says
ConstellationsInView(onScreen, table) ==
    SortByVisibility(
        SelectSeq([i \in DOMAIN ConstellationEntries |->
                      InViewEntry(onScreen, table, ConstellationEntries[i])],
                  LAMBDA e : e.starsVisible > 0))

\* identifyConstellationsInView(): the new value of constellationsInView
identifyConstellationsInView(v, heading, objs, table) ==
    ConstellationsInView(StarsOnScreen(v, heading, objs, table), table)

\* null where a constellation's name can stand (selectedConstellation)
NullName == "null"

\* the first constellation of list that isPointInConstellation answers true
\* for, or null
FirstHit(list, onScreen, table, x, y) ==
    LET hits == { i \in DOMAIN list :
                    isPointInConstellation(onScreen, table, x, y, list[i].name) }
    IN  IF hits = {} THEN NullName
        ELSE list[CHOOSE i \in hits : \A j \in hits : i <= j].name

\* the selection after a tap that hit the constellation hit (or none)
Toggled(selected, hit) == IF selected = hit THEN NullName ELSE hit

\* handleTap(x, y): the new value of selectedConstellation
handleTap(v, heading, objs, table, x, y) ==
    IF v.zoomLevel < TapZoom THEN NullName
    ELSE Toggled(v.selectedConstellation,
                 FirstHit(v.constellationsInView,
                          StarsOnScreen(v, heading, objs, table), table, x, y))

(***************************************************************************)
(* Bounds of the model                                                     *)
(***************************************************************************)
\* how many ten-day steps before and after J2000.0 the planets are asked for
PlanetSpan == 12

\* how many days before and after J2000.0 the Moon's phase is asked for
MoonSpan == 16

\* how far the clock runs past the instant the page was opened at
MaxTicks == 2

\* how far the clock can advance while one frame is rendered
MaxFrameTicks == 1

\* the instants the page is opened at (clock readings, in centidays since
\* the Unix epoch; J2000.0 is 1095750)
StartClocks == {1095750 + 37}

ClockValues == UNION {s..(s + MaxTicks) : s \in StartClocks}

\* the places the location callback reports (latitude, longitude)
\* the last is a place that has Rigel (RA 78.63, Dec -8.202) at the zenith at
\* the instant of StartClocks: there the sum of the two products of
\* SinAltitude comes out one unit above 1, as it does in doubles for
\* latitudes next to a star's declination (1.0000000000000002), and asin of
\* it is NaN
Locations == { <<40000, -74000>>, <<-34000, 151000>>, <<-8202, 24604>> }

\* what a deviceorientation event carries
EventAlphas == {Null, 120000}
EventBetas == {Null, 30000}
EventWebkitHeadings == {Undefined, Null, 250000}
\* what a deviceorientationabsolute event carries (0 is due north)
EventAbsoluteAlphas == {Null, 0, 120000}

(***************************************************************************)
(* State after the constructor                                             *)
(***************************************************************************)
NoCall == [op |-> "none", args |-> << >>, done |-> FALSE, result |-> Null]

\* the view fields as the constructor of NightSkyMapZoom leaves them
NewView ==
    [zoomLevel |-> ZoomScale, panX |-> 0, panY |-> 0, isDragging |-> FALSE,
     lastTouchX |-> 0, lastTouchY |-> 0, lastPinchDistance |-> 0,
     focusMode |-> FALSE, constellationsInView |-> << >>,
     selectedConstellation |-> NullName]

\* no finger on the canvas, nothing touched or clicked yet
NoTouch == [touches |-> << >>, kind |-> "none", delta |-> 0, events |-> 0]

\* the start button has not been clicked (this.animationId = null)
NotStarted ==
    [attempts |-> << >>, animationId |-> Null, pending |-> {}, requested |-> 0,
     rendered |-> 0, destroyed |-> FALSE, late |-> FALSE, errorShown |-> FALSE]

\* no event has been dispatched yet
NothingHeard == [type |-> "none", alpha |-> Null, webkit |-> Undefined,
                 absolute |-> Null]

\* the listeners of NightSkyMap are handed an event
Hear(type, ea, wk) ==
    [type |-> type, alpha |-> ea, webkit |-> wk,
     absolute |-> IF type = "deviceorientationabsolute" /\ ea # Null
                  THEN ea ELSE heard.absolute]

NoFrame == [jd |-> Null, used |-> {}, reads |-> 0,
            view |-> << 0, 0, 0 >>, again |-> FALSE, turned |-> FALSE]

Init ==
    /\ app \in Apps
    /\ clock \in StartClocks
    /\ latitude = Null
    /\ longitude = Null
    /\ stars = << >>
    /\ alpha = 0
    /\ beta = 0
    /\ compassHeading = 0
    /\ useWebkit = FALSE
    /\ absoluteAvailable = FALSE
    /\ objects = << >>
    /\ frame = NoFrame
    /\ tables = LoadedTables
    /\ gesture = NewView
    /\ touch = NoTouch
    /\ life = NotStarted
    /\ heard = NothingHeard
    /\ call = NoCall

\* x || 0
OrZero(x) == IF Truthy(x) THEN x ELSE 0

\* The star indices of CONSTELLATIONS that drawConstellations finds a star
\* record for (const star = this.stars[starIndex]; if (!star) return), one
\* element per occurrence.
LineStars(ss) ==
    UNION { UNION { { <<c, l, k>> : k \in { k \in DOMAIN CONSTELLATIONS[c][l] :
                                             CONSTELLATIONS[c][l][k] < Len(ss) } }
                    : l \in DOMAIN CONSTELLATIONS[c] }
            : c \in DOMAIN CONSTELLATIONS }

\* The clock readings of one frame after the query's own: the Julian Dates
\* that positions drawn in the frame are derived from (used), and the number
\* of clock reads.  later is the set of readings taken while drawing.
\*   app.js               drawStars reads the clock and ignores the value
\*   sky-map-app.js,      drawConstellations reads it once for every star of
\*   sky-map-improved.js  a line and computes that star's position from it
\*   the zoom classes     no further reading
FrameReads(a, ss, jd, later) ==
    IF a = AppJs THEN [jd |-> jd, used |-> {jd}, reads |-> 2]
    ELSE IF a \in {SkyMapAppJs, SkyMapImprovedJs}
    THEN [jd |-> jd, used |-> {jd} \cup later,
          reads |-> 1 + Cardinality(LineStars(ss))]
    ELSE [jd |-> jd, used |-> {jd}, reads |-> 1]

\* What the frame's query had before it, kept for the comparison of one
\* query with the one before: the orientation the device had (view), whether
\* the frame before had the same Julian Date (again) and, if so, whether the
\* device has been turned since (turned).
FrameHistory(jd) ==
    [view   |-> << alpha, beta, compassHeading >>,
     again  |-> frame.jd = jd,
     turned |-> frame.jd = jd /\ frame.view # << alpha, beta, compassHeading >>]

\* The result of the query of class app on the stars ss at the place
\* (lat, lon) and the clock's instant.
QueryResultHeading(ss, lat, lon) ==
    IF app = AppJs
    THEN calculateVisibleObjects(ss, lat, lon, getJulianDate(clock), alpha, beta)
    ELSE SelectSeq(calculateAllObjects(app, ss, lat, lon, getJulianDate(clock)),
                   LAMBDA o : InFieldOfView(o, compassHeading, 90000))

QueryResult(ss, lat, lon) ==
    IF app = AppJs
    THEN calculateVisibleObjects(ss, lat, lon, getJulianDate(clock), alpha, beta)
    ELSE calculateAllObjects(app, ss, lat, lon, getJulianDate(clock))

\* render(): the query on this.stars = ss, then the drawing, and the clock
\* going on meanwhile by one of ticks
RenderFrameDuring(ss, lat, lon, ticks) ==
    /\ stars' = IF app = AppJs
                THEN StarsAfterVisibleObjects(ss, lat, lon, getJulianDate(clock))
                ELSE ss
    /\ tables' = IF app = AppJs
                 THEN TablesAfterVisibleObjects(tables, ss, lat, lon,
                                                getJulianDate(clock))
                 ELSE tables
    /\ objects' = QueryResult(ss, lat, lon)
    /\ gesture' = IF app \in {SkyMapZoomJs, Part000}
                  THEN [gesture EXCEPT !.constellationsInView =
                          identifyConstellationsInView(
                              gesture, compassHeading,
                              QueryResult(ss, lat, lon), tables.CONSTELLATIONS)]
                  ELSE gesture
    /\ \E dt \in ticks :
        /\ clock + dt \in ClockValues
        /\ \E later \in SUBSET { getJulianDate(c) : c \in clock..(clock + dt) } :
            /\ later # {}
            /\ frame' = FrameReads(app, ss, getJulianDate(clock), later)
                         @@ FrameHistory(getJulianDate(clock))
            /\ clock' = clock + dt

RenderFrame(ss, lat, lon) ==
    RenderFrameDuring(ss, lat, lon, 0..MaxFrameTicks)

\* The location callback and what initialize() does once getLocation()
\* has resolved: the star list is loaded and the first frame is rendered.
InitializeAt(places, ticks) ==
    /\ latitude = Null
    /\ \E loc \in places :
        /\ latitude' = loc[1]
        /\ longitude' = loc[2]
        /\ RenderFrameDuring(StarsOf(tables.STAR_CATALOG), loc[1], loc[2], ticks)
    /\ UNCHANGED << app, alpha, beta, compassHeading, useWebkit,
                    absoluteAvailable, touch, life, heard, call >>

Initialize == InitializeAt(Locations, 0..MaxFrameTicks)

\* requestAnimationFrame(() => this.render()): one more frame
Render ==
    /\ latitude # Null
    /\ RenderFrame(stars, latitude, longitude)
    /\ UNCHANGED << app, latitude, longitude, alpha, beta, compassHeading,
                    useWebkit, absoluteAvailable, touch, life, heard, call >>

\* The deviceorientation listener that startOrientationTracking registers,
\* handed an event with the given alpha, beta and webkitCompassHeading.
DeviceOrientationEvent(ea, eb, wk) ==
    \/ /\ app = AppJs
       /\ wk = Undefined
       /\ alpha' = OrZero(ea)
       /\ beta' = OrZero(eb)
       /\ UNCHANGED << compassHeading, useWebkit >>
    \/ /\ app = SkyMapAppJs
       /\ wk = Undefined
       /\ eb = Null
       /\ compassHeading' = IF ea # Null /\ compassHeading = 0
                            THEN ea ELSE compassHeading
       /\ UNCHANGED << alpha, beta, useWebkit >>
    \/ /\ app = SkyMapImprovedJs
       /\ eb = Null
       /\ IF absoluteAvailable
          THEN UNCHANGED << compassHeading, useWebkit >>
          ELSE IF wk # Undefined /\ wk # Null
          THEN compassHeading' = wk /\ useWebkit' = TRUE
          ELSE /\ compassHeading' = IF ea # Null THEN ea ELSE compassHeading
               /\ UNCHANGED useWebkit
       /\ UNCHANGED << alpha, beta >>
    \/ /\ app \in {SkyMapZoomJs, Part000}
       /\ eb = Null
       /\ wk # Null    \* an iOS heading is a number wherever it is defined
       /\ compassHeading' = IF wk # Undefined THEN wk
                            ELSE IF ea # Null THEN ea ELSE compassHeading
       /\ UNCHANGED << alpha, beta, useWebkit >>

DeviceOrientation ==
    /\ latitude # Null
    /\ \E ea \in EventAlphas, eb \in EventBetas, wk \in EventWebkitHeadings :
        DeviceOrientationEvent(ea, eb, wk)
    /\ UNCHANGED << tables, app, clock, latitude, longitude, stars, absoluteAvailable,
                    objects, frame, gesture, touch, life, heard, call >>

\* the absolute listener without its flag: absoluteAvailable is left alone
DeviceOrientationAbsoluteEventNoFlag(ea) ==
    /\ compassHeading' = IF ea # Null THEN ea ELSE compassHeading
    /\ UNCHANGED absoluteAvailable

\* The deviceorientationabsolute listener of NightSkyMap, handed an event
\* with the given alpha.
DeviceOrientationAbsoluteEvent(ea) ==
    /\ compassHeading' = IF ea # Null THEN ea ELSE compassHeading
    /\ absoluteAvailable' = IF app = SkyMapImprovedJs /\ ea # Null
                            THEN TRUE ELSE absoluteAvailable

DeviceOrientationAbsolute ==
    /\ latitude # Null
    /\ app \in {SkyMapAppJs, SkyMapImprovedJs}
    /\ \E ea \in EventAbsoluteAlphas : DeviceOrientationAbsoluteEvent(ea)
    /\ UNCHANGED << tables, app, clock, latitude, longitude, stars, alpha, beta,
                    useWebkit, objects, frame, gesture, touch, life, heard, call >>

\* Time passes between two events.
Tick ==
    /\ clock + 1 \in ClockValues
    /\ clock' = clock + 1
    /\ UNCHANGED << tables, app, latitude, longitude, stars, alpha, beta,
                    compassHeading, useWebkit, absoluteAvailable, objects,
                    frame, gesture, touch, life, heard, call >>

Next ==
    \/ Initialize
    \/ Render
    \/ DeviceOrientation
    \/ DeviceOrientationAbsolute
    \/ Tick

Spec == Init /\ [][Next]_vars

(***************************************************************************)
(* The two orientation listeners of NightSkyMap on their own: the page is  *)
(* started, and from then on the browser dispatches deviceorientation and  *)
(* deviceorientationabsolute events in any order.  heard keeps what the    *)
(* listeners were handed.                                                  *)
(***************************************************************************)
InitListeners == Init /\ app \in {SkyMapAppJs, SkyMapImprovedJs}

HearDeviceOrientation ==
    /\ latitude # Null
    /\ \E ea \in EventAlphas, wk \in EventWebkitHeadings :
        /\ DeviceOrientationEvent(ea, Null, wk)
        /\ heard' = Hear("deviceorientation", ea, wk)
    /\ UNCHANGED << tables, app, clock, latitude, longitude, stars, absoluteAvailable,
                    objects, frame, gesture, touch, life, call >>

HearDeviceOrientationAbsolute ==
    /\ latitude # Null
    /\ \E ea \in EventAbsoluteAlphas :
        /\ DeviceOrientationAbsoluteEvent(ea)
        /\ heard' = Hear("deviceorientationabsolute", ea, Undefined)
    /\ UNCHANGED << tables, app, clock, latitude, longitude, stars, alpha, beta,
                    useWebkit, objects, frame, gesture, touch, life, call >>

NextListeners ==
    \/ Initialize
    \/ HearDeviceOrientation
    \/ HearDeviceOrientationAbsolute

SpecListeners == InitListeners /\ [][NextListeners]_vars

(***************************************************************************)
(* The gestures and the buttons of NightSkyMapZoom (part_000 and           *)
(* sky-map-zoom.js): fingers are put on the canvas, moved and lifted, and  *)
(* the zoom, reset and focus buttons are clicked, in any order.            *)
(***************************************************************************)
\* how many touch events and clicks one behaviour has
MaxEvents == 6

\* the points of the canvas a first finger is put down at: on a star of
\* Cassiopeia that lies 16 pixels from one of UrsaMajor, on a star of
\* Scorpius, and 40 pixels to the right of that star, on empty sky (where
\* the stars are for the place of ZoomLocations at zoom 1.69)
StartPoints == { << 227, 349 >>, << 50, 226 >>, << 90, 226 >> }

\* the place the page of the zoomed view is opened at
ZoomLocations == { << -8202, 24604 >> }

\* how far one touchmove takes a single finger
Drags == { << 25, -10 >> }

\* how far to the right of the first finger the second one is
PinchDistances == { 100, 700 }

\* Math.sqrt of a whole number, to the nearest whole number
MathSqrtWhole(n) ==
    CHOOSE r \in 0..(CanvasWidth + CanvasHeight) * 2 :
        /\ (2 * r - 1) * (2 * r - 1) <= 4 * n
        /\ (2 * r + 1) * (2 * r + 1) > 4 * n

\* getTouchDistance(touch1, touch2)
getTouchDistance(touch1, touch2) ==
    LET dx == touch1[1] - touch2[1]
        dy == touch1[2] - touch2[2]
    IN  MathSqrtWhole(dx * dx + dy * dy)

InitZoom == Init /\ app \in {SkyMapZoomJs, Part000}

\* the location callback and the first frame of the zoomed view
InitializeZoom == InitializeAt(ZoomLocations, {0})

\* the canvas and the buttons are hidden until the click on the start button
\* shows them; the gestures followed here are those made once the first
\* frame is on the canvas
CanvasShown == latitude # Null

\* v after identifyConstellationsInView()
Identified(v) ==
    [v EXCEPT !.constellationsInView =
        identifyConstellationsInView(v, compassHeading, objects,
                                     tables.CONSTELLATIONS)]

\* what no touch handler and no button assigns
ViewContext == << app, clock, latitude, longitude, stars, alpha, beta,
                  compassHeading, useWebkit, absoluteAvailable, objects, frame,
                  tables, life, heard, call >>

\* the same without the clamp
PinchedUnclamped(a, v, dist) ==
    [v EXCEPT !.zoomLevel = RDiv(v.zoomLevel * (500 + dist - v.lastPinchDistance),
                                 500),
              !.lastPinchDistance = dist]

\* v after this.zoomLevel *= (1 + delta / 500) and the clamp
Pinched(a, v, dist) ==
    LET delta == dist - v.lastPinchDistance
        zoomed == RDiv(v.zoomLevel * (500 + delta), 500)
    IN  [v EXCEPT !.zoomLevel = MathMax(minZoom, MathMin(maxZoom(a), zoomed)),
                  !.lastPinchDistance = dist]

\* the touchstart listener: a first finger at one of StartPoints, or a
\* second one beside the first
TouchStart ==
    /\ CanvasShown
    /\ touch.events < MaxEvents
    /\ \/ /\ Len(touch.touches) = 0
          /\ \E p \in StartPoints :
              /\ touch' = [touches |-> << p >>, kind |-> "tap", delta |-> 0,
                           events |-> touch.events + 1]
              /\ gesture' = [gesture EXCEPT !.isDragging = TRUE,
                                            !.lastTouchX = p[1],
                                            !.lastTouchY = p[2]]
       \/ /\ Len(touch.touches) = 1
          /\ \E d \in PinchDistances :
              LET second == << touch.touches[1][1] + d, touch.touches[1][2] >>
              IN  /\ touch' = [touch EXCEPT !.touches = Append(@, second),
                                            !.kind = "pinch",
                                            !.events = @ + 1]
                  /\ gesture' = [gesture EXCEPT !.lastPinchDistance =
                                    getTouchDistance(touch.touches[1], second)]
    /\ UNCHANGED ViewContext

\* the touchmove listener: with two fingers down the second moves, with one
\* down it moves by one of Drags
TouchMove ==
    /\ CanvasShown
    /\ touch.events < MaxEvents
    /\ \/ /\ Len(touch.touches) = 2
          /\ \E d \in PinchDistances :
              LET second == << touch.touches[1][1] + d, touch.touches[1][2] >>
              IN  /\ second # touch.touches[2]
                  /\ touch' = [touch EXCEPT
                                 !.touches[2] = second,
                                 !.delta = getTouchDistance(touch.touches[1], second)
                                             - gesture.lastPinchDistance,
                                 !.events = @ + 1]
                  /\ gesture' = Pinched(app, gesture,
                                        getTouchDistance(touch.touches[1], second))
       \/ /\ Len(touch.touches) = 1
          /\ \E d \in Drags :
              LET x == touch.touches[1][1] + d[1]
                  y == touch.touches[1][2] + d[2]
              IN  /\ touch' = [touch EXCEPT
                                 !.touches[1] = << x, y >>,
                                 !.kind = IF gesture.isDragging /\ @ = "tap"
                                          THEN "drag" ELSE @,
                                 !.events = @ + 1]
                  /\ gesture' = IF gesture.isDragging
                                THEN [gesture EXCEPT
                                        !.panX = @ + (x - gesture.lastTouchX),
                                        !.panY = @ + (y - gesture.lastTouchY),
                                        !.lastTouchX = x,
                                        !.lastTouchY = y]
                                ELSE gesture
    /\ UNCHANGED ViewContext

\* v after the tap that the touchend listener of part_000 makes of the
\* lifted finger; sky-map-zoom.js has no handleTap
Tapped(a, v, lifted) ==
    IF a = Part000
    THEN [v EXCEPT !.selectedConstellation =
             handleTap(v, compassHeading, objects, tables.CONSTELLATIONS,
                       lifted[1], lifted[2])]
    ELSE v

\* the touchend listener: one finger is lifted (changedTouches.length is 1),
\* or both at once
TouchEnd ==
    /\ CanvasShown
    /\ touch.events < MaxEvents
    /\ \/ \E i \in DOMAIN touch.touches :
            LET rest == SelectSeq([j \in DOMAIN touch.touches |->
                                     IF j = i THEN << >> ELSE touch.touches[j]],
                                  LAMBDA t : t # << >>)
                ended == [gesture EXCEPT !.isDragging = FALSE]
            IN  /\ touch' = [touch EXCEPT
                                 !.touches = rest,
                                 !.kind = IF rest = << >> THEN "none" ELSE @,
                                 !.events = @ + 1]
                /\ gesture' = IF rest = << >>
                              THEN Identified(Tapped(app, ended, touch.touches[i]))
                              ELSE ended
       \/ /\ Len(touch.touches) = 2
          /\ touch' = [touch EXCEPT !.touches = << >>, !.kind = "none",
                                    !.events = @ + 1]
          /\ gesture' = Identified([gesture EXCEPT !.isDragging = FALSE])
    /\ UNCHANGED ViewContext

\* a button was clicked
Clicked == touch' = [touch EXCEPT !.events = @ + 1]

\* click on zoomIn
ZoomInClick ==
    /\ CanvasShown
    /\ touch.events < MaxEvents
    /\ Clicked
    /\ gesture' = Identified([gesture EXCEPT !.zoomLevel =
                     MathMin(maxZoom(app), RDiv(gesture.zoomLevel * 13, 10))])
    /\ UNCHANGED ViewContext

\* click on zoomOut
ZoomOutClick ==
    /\ CanvasShown
    /\ touch.events < MaxEvents
    /\ Clicked
    /\ gesture' = Identified([gesture EXCEPT !.zoomLevel =
                     MathMax(minZoom, RDiv(gesture.zoomLevel * 10, 13))])
    /\ UNCHANGED ViewContext

\* click on resetView
ResetViewClick ==
    /\ CanvasShown
    /\ touch.events < MaxEvents
    /\ Clicked
    /\ gesture' = Identified([gesture EXCEPT !.zoomLevel = ZoomScale,
                                             !.panX = 0, !.panY = 0])
    /\ UNCHANGED ViewContext

\* click on focusMode (part_000)
FocusModeClick ==
    /\ app = Part000
    /\ CanvasShown
    /\ touch.events < MaxEvents
    /\ Clicked
    /\ gesture' = [gesture EXCEPT !.focusMode = ~@]
    /\ UNCHANGED ViewContext

NextZoom ==
    \/ InitializeZoom
    \/ TouchStart
    \/ TouchMove
    \/ TouchEnd
    \/ ZoomInClick
    \/ ZoomOutClick
    \/ ResetViewClick
    \/ FocusModeClick

SpecZoom == InitZoom /\ [][NextZoom]_vars

(***************************************************************************)
(* The life of one app object: the clicks on the start button, the         *)
(* answers to the motion permission and location requests that each click  *)
(* leaves pending, the animation frames and destroy().  Every click starts *)
(* an attempt; life.attempts holds for each what it is waiting for.        *)
(***************************************************************************)
\* how many clicks on the start button a behaviour has
MaxClicks == 2

\* how many animation frames a behaviour requests
MaxFrames == 3

\* the place the location callback reports here
LifeLocations == { << -8202, 24604 >> }

\* what the click handler awaits first: getLocation() in initialize() of
\* app.js, the motion permission in the other classes
FirstAwait(a) == IF a = AppJs THEN "location" ELSE "permission"

\* what an attempt goes on to when the request it awaited in phase is
\* answered as if nothing could fail
AfterAnswerUnchecked(a, phase, ok) ==
    IF a = AppJs
    THEN IF phase = "location" THEN "permission" ELSE "rendering"
    ELSE IF phase = "permission" THEN "location" ELSE "rendering"

\* what an attempt goes on to when the request it awaited in phase is
\* answered: a rejection or a denial is thrown to the catch block, which
\* shows the error; app.js asks for the location and then for the
\* permission, the other classes for the permission and then the location;
\* after the second answer initialize() calls render()
AfterAnswer(a, phase, ok) ==
    IF ~ok
    THEN "failed"
    ELSE IF a = AppJs
         THEN IF phase = "location" THEN "permission" ELSE "rendering"
         ELSE IF phase = "permission" THEN "location" ELSE "rendering"

\* this.animationId = requestAnimationFrame(() => this.render()) at the end
\* of render(): one more frame rendered, one more callback pending, its id
\* kept in animationId
FrameRequested(l) ==
    [l EXCEPT !.requested = @ + 1,
              !.rendered = @ + 1,
              !.animationId = l.requested + 1,
              !.pending = @ \cup { l.requested + 1 }]

\* what no step of the life of the app changes
LifeContext == << app, alpha, beta, compassHeading, useWebkit,
                  absoluteAvailable, touch, heard, call >>

InitLife == Init

\* the click listener of the start button up to its first await
StartClick ==
    /\ Len(life.attempts) < MaxClicks
    /\ life' = [life EXCEPT !.attempts = Append(@, FirstAwait(app))]
    /\ UNCHANGED << latitude, longitude, stars, clock, objects, frame,
                    tables, gesture >>
    /\ UNCHANGED LifeContext

\* attempt i gets the answer ok to the request it awaits, and runs up to its
\* next await, to the end of initialize() or to the end of the catch block;
\* loc is the place of a position and ss the list getStars() returns
Answered(i, ok, loc, ss) ==
    LET phase == life.attempts[i]
        next == AfterAnswer(app, phase, ok)
        located == phase = "location" /\ ok
        lat == IF located THEN loc[1] ELSE latitude
        lon == IF located THEN loc[2] ELSE longitude
        list == IF located THEN ss ELSE stars
        gone == [life EXCEPT !.attempts[i] = next,
                             !.errorShown = @ \/ next = "failed"]
    IN  /\ latitude' = lat
        /\ longitude' = lon
        /\ IF next = "rendering"
           THEN /\ life.requested < MaxFrames
                /\ RenderFrameDuring(list, lat, lon, {0})
                /\ life' = FrameRequested(gone)
           ELSE /\ stars' = list
                /\ life' = gone
                /\ UNCHANGED << clock, objects, frame, tables, gesture >>
        /\ UNCHANGED LifeContext

\* DeviceOrientationEvent.requestPermission() resolves for an attempt
PermissionAnswer ==
    \E i \in DOMAIN life.attempts :
        /\ life.attempts[i] = "permission"
        /\ \E granted \in BOOLEAN : Answered(i, granted, << >>, << >>)

\* getCurrentPosition calls its success or its error callback for an attempt
LocationAnswer ==
    \E i \in DOMAIN life.attempts :
        /\ life.attempts[i] = "location"
        /\ \E found \in BOOLEAN, loc \in LifeLocations :
              Answered(i, found, loc, StarsOf(tables.STAR_CATALOG))

\* the browser runs a pending animation frame callback: render()
AnimationFrame ==
    \E id \in life.pending :
        /\ life.requested < MaxFrames
        /\ RenderFrame(stars, latitude, longitude)
        /\ life' = FrameRequested([life EXCEPT !.pending = @ \ { id },
                                               !.late = @ \/ life.destroyed])
        /\ UNCHANGED << latitude, longitude >>
        /\ UNCHANGED LifeContext

\* destroy(): if (this.animationId) cancelAnimationFrame(this.animationId)
Destroy ==
    /\ ~life.destroyed
    /\ life' = [life EXCEPT !.destroyed = TRUE,
                            !.pending = IF life.animationId # Null
                                        THEN @ \ { life.animationId }
                                        ELSE @]
    /\ UNCHANGED << latitude, longitude, stars, clock, objects, frame,
                    tables, gesture >>
    /\ UNCHANGED LifeContext

NextLife ==
    \/ StartClick
    \/ PermissionAnswer
    \/ LocationAnswer
    \/ AnimationFrame
    \/ Destroy

SpecLife == InitLife /\ [][NextLife]_vars

(***************************************************************************)
(* The Astronomy engine called on its own: a behaviour is one call of one  *)
(* of its methods.  The initial state holds the method and the arguments,  *)
(* drawn from the sets below, and the step applies the method and keeps    *)
(* what it returned.                                                       *)
(***************************************************************************)
AstronomyJs == "astronomy.js"

\* names handed to the planet lookups: the five of the tables, two that are
\* in neither, and two that every object inherits
PlanetNames ==
    { "Mercury", "Venus", "Mars", "Jupiter", "Saturn", "Pluto", "Earth",
      "constructor", "toString" }

\* date.getTime() in centidays: after and before J2000.0, and of an
\* invalid Date
Timestamps == { 1095750 + 37, 1095750 - 250, 1095750 - 100000, NaN }

\* the instants handed to getPlanetPosition: those of Timestamps and every
\* tenth day up to PlanetSpan such steps before and after J2000.0, over
\* which Mercury goes round the whole circle
PlanetTimestamps ==
    Timestamps \cup { 1095750 + 1000 * k : k \in (0 - PlanetSpan)..PlanetSpan }

\* the instants handed to getMoonPhase: those of Timestamps and every day
\* up to MoonSpan days before and after J2000.0, more than one lunation
MoonTimestamps ==
    Timestamps \cup { 1095750 + 100 * k : k \in (0 - MoonSpan)..MoonSpan }

\* latitudes in millidegrees, inside and outside [-90, 90]
Latitudes == { 40000, -34000, -8202, 0, 95000, -120000, NaN }

Longitudes == { -74000, 151000, 24604 }

\* longitudes handed to getLocalSiderealTime on its own, from -180 to just
\* below 360; at 262.002 the sum theta0 + longitude of the second instant of
\* Timestamps is one unit below a multiple of 360
SiderealLongitudes == { -180000, -74000, 0, 151000, 262002, 359999 }

\* the instants handed to getLocalSiderealTime on its own: those of
\* Timestamps and J2000.0 itself
SiderealTimestamps == Timestamps \cup { 1095750 }

\* what is added to the longitude of a call for the comparison of two calls
LongitudeShifts == { -90000, 1, 1000, 180000 }

RightAscensions == { 0, 78630, 279225 }

Declinations == { -8202, 38783, 89264 }

\* A finite double so large that its neighbours are more than 720 away
\* (1e19 is one: doubles are 2048 apart there): adding or subtracting 360
\* gives the number itself.
Huge == 2 ^ 30 - 8

\* a - b of doubles where a or b may be Huge or -Huge
DSub(a, b) ==
    IF a = NaN \/ b = NaN THEN NaN
    ELSE IF Abs(a) = Huge THEN (IF b = a THEN 0 ELSE a)
    ELSE IF Abs(b) = Huge THEN 0 - b
    ELSE a - b

\* the angles handed to angleDifference on its own, in millidegrees
AngleInputs == { 0, 1000, 180000, 359000, 360000, 900000, -270000, Huge }

\* bodies at the zenith: the observer's latitudes, each with a body of that
\* declination on the meridian
ZenithLatitudes == { -90000, -34000, 0, 40000, 45000, 70399, 90000 }

\* the longitude at which the local sidereal time of the first instant of
\* Timestamps is 0
ZenithLongitudes == { -54026 }

\* right ascensions (sun.ra, moon.ra) of the Sun and the Moon at and next to a
\* new moon, and one apart from it: the Moon a step of the scale behind the
\* Sun, level with it, a step ahead, and 60 degrees ahead
NewMoonAscensions ==
    { << 221277, 221276 >>, << 221277, 221277 >>, << 221277, 221278 >>,
      << 40000, 100000 >> }

Pending(op, args) == [op |-> op, args |-> args, done |-> FALSE, result |-> Null]

InitFn ==
    /\ app = AstronomyJs
    /\ clock \in StartClocks
    /\ latitude = Null
    /\ longitude = Null
    /\ stars = << >>
    /\ alpha = 0
    /\ beta = 0
    /\ compassHeading = 0
    /\ useWebkit = FALSE
    /\ absoluteAvailable = FALSE
    /\ objects = << >>
    /\ frame = NoFrame
    /\ tables = LoadedTables
    /\ gesture = NewView
    /\ touch = NoTouch
    /\ life = NotStarted
    /\ heard = NothingHeard
    /\ \/ \E name \in PlanetNames :
            call = Pending("getPlanetMagnitude", << name >>)
       \/ \E name \in PlanetNames, t \in PlanetTimestamps :
            call = Pending("getPlanetPosition", << name, getJulianDate(t) >>)
       \/ \E ra \in RightAscensions, dec \in Declinations, lat \in Latitudes,
             lon \in Longitudes, t \in Timestamps :
            call = Pending("equatorialToHorizontal",
                           << ra, dec, lat, lon, getJulianDate(t) >>)
       \/ \E lat \in ZenithLatitudes, lon \in ZenithLongitudes :
            call = Pending("equatorialToHorizontal",
                           << 0, lat, lat, lon, getJulianDate(1095750 + 37) >>)
       \/ \E lat \in Latitudes, lon \in Longitudes, t \in Timestamps :
            call = Pending("calculateAllObjects", << lat, lon, getJulianDate(t) >>)
       \/ \E lon \in SiderealLongitudes, t \in SiderealTimestamps :
            call = Pending("getLocalSiderealTime", << getJulianDate(t), lon >>)
       \/ \E t \in Timestamps :
            call = Pending("getSunPosition", << getJulianDate(t) >>)
       \/ \E t \in Timestamps :
            call = Pending("getMoonPosition", << getJulianDate(t) >>)
       \/ \E t \in MoonTimestamps :
            call = Pending("getMoonPhase", << getJulianDate(t) >>)
       \/ \E pair \in NewMoonAscensions :
            call = Pending("getMoonPhase.phase", pair)
       \/ call = Pending("getStars", << >>)
       \/ \E a \in AngleInputs, b \in AngleInputs :
            call = Pending("angleDifference", << a, b >>)

Engine == << app, clock, latitude, longitude, stars, alpha, beta,
             compassHeading, useWebkit, absoluteAvailable, objects, frame,
             tables, gesture, touch, life, heard >>

Return(value) == call' = [call EXCEPT !.done = TRUE, !.result = value]

CallGetPlanetMagnitude ==
    /\ call.op = "getPlanetMagnitude"
    /\ ~call.done
    /\ Return(getPlanetMagnitude(call.args[1]))
    /\ UNCHANGED Engine

CallGetPlanetPosition ==
    /\ call.op = "getPlanetPosition"
    /\ ~call.done
    /\ Return(getPlanetPosition(call.args[1], call.args[2]))
    /\ UNCHANGED Engine

CallEquatorialToHorizontal ==
    /\ call.op = "equatorialToHorizontal"
    /\ ~call.done
    /\ Return(equatorialToHorizontal(call.args[1], call.args[2], call.args[3],
                                     call.args[4], call.args[5]))
    /\ UNCHANGED Engine

\* the query of a map class at a place and an instant handed to it
CallQuery ==
    /\ call.op = "calculateAllObjects"
    /\ ~call.done
    /\ Return(calculateAllObjects(Part000, StarsOf(tables.STAR_CATALOG),
                                  call.args[1], call.args[2],
                                  call.args[3]))
    /\ UNCHANGED Engine

CallGetLocalSiderealTime ==
    /\ call.op = "getLocalSiderealTime"
    /\ ~call.done
    /\ Return(getLocalSiderealTime(call.args[1], call.args[2]))
    /\ UNCHANGED Engine

CallGetSunPosition ==
    /\ call.op = "getSunPosition"
    /\ ~call.done
    /\ Return(getSunPosition(call.args[1]))
    /\ UNCHANGED Engine

CallGetMoonPosition ==
    /\ call.op = "getMoonPosition"
    /\ ~call.done
    /\ Return(getMoonPosition(call.args[1]))
    /\ UNCHANGED Engine

CallGetMoonPhase ==
    /\ call.op = "getMoonPhase"
    /\ ~call.done
    /\ Return(getMoonPhase(call.args[1]))
    /\ UNCHANGED Engine

\* phase = moon.ra - sun.ra; if (phase < 0) phase += 360, of getMoonPhase,
\* for the right ascensions of the arguments
CallMoonPhaseAngle ==
    /\ call.op = "getMoonPhase.phase"
    /\ ~call.done
    /\ Return(PhaseBetween(call.args[1], call.args[2]))
    /\ UNCHANGED Engine

CallGetStars ==
    /\ call.op = "getStars"
    /\ ~call.done
    /\ Return(StarsOf(tables.STAR_CATALOG))
    /\ UNCHANGED Engine

\* this.stars = getStars(): the caller keeps the list, and getStars is
\* called once more
KeepStars ==
    /\ call.op = "getStars"
    /\ call.done
    /\ stars = << >>
    /\ stars' = call.result
    /\ call' = Pending("getStars", << >>)
    /\ UNCHANGED << tables, app, clock, latitude, longitude, alpha, beta,
                    compassHeading, useWebkit, absoluteAvailable, objects,
                    frame, gesture, touch, life, heard >>

\* angleDifference(a, b), one step of it at a time; call.result holds diff
\* once the function has been entered.
\* let diff = a - b
AngleDifferenceEnter ==
    /\ call.op = "angleDifference"
    /\ ~call.done
    /\ call.result = Null
    /\ call' = [call EXCEPT !.result = DSub(call.args[1], call.args[2])]
    /\ UNCHANGED Engine

\* while (diff > 180) diff -= 360
AngleDifferenceAbove ==
    /\ call.op = "angleDifference"
    /\ ~call.done
    /\ call.result # Null
    /\ NGt(call.result, 180000)
    /\ call' = [call EXCEPT !.result = DSub(call.result, 360000)]
    /\ UNCHANGED Engine

\* while (diff < -180) diff += 360; the first loop has ended, and this one
\* never brings diff above 180 again
AngleDifferenceBelow ==
    /\ call.op = "angleDifference"
    /\ ~call.done
    /\ call.result # Null
    /\ ~NGt(call.result, 180000)
    /\ NLt(call.result, -180000)
    /\ call' = [call EXCEPT !.result = DSub(call.result, -360000)]
    /\ UNCHANGED Engine

\* return diff
AngleDifferenceReturn ==
    /\ call.op = "angleDifference"
    /\ ~call.done
    /\ call.result # Null
    /\ ~NGt(call.result, 180000)
    /\ ~NLt(call.result, -180000)
    /\ call' = [call EXCEPT !.done = TRUE]
    /\ UNCHANGED Engine

NextFn ==
    \/ AngleDifferenceEnter
    \/ AngleDifferenceAbove
    \/ AngleDifferenceBelow
    \/ AngleDifferenceReturn
    \/ CallGetStars
    \/ KeepStars
    \/ CallGetPlanetMagnitude
    \/ CallGetPlanetPosition
    \/ CallEquatorialToHorizontal
    \/ CallQuery
    \/ CallGetLocalSiderealTime
    \/ CallGetSunPosition
    \/ CallGetMoonPosition
    \/ CallGetMoonPhase
    \/ CallMoonPhaseAngle

SpecFn == InitFn /\ [][NextFn]_vars

\* the steps of angleDifference
AngleDifferenceStep ==
    \/ AngleDifferenceEnter
    \/ AngleDifferenceAbove
    \/ AngleDifferenceBelow
    \/ AngleDifferenceReturn

\* the call, if it is one of angleDifference
AngleDifferenceCall == IF call.op = "angleDifference" THEN call ELSE NoCall

\* a call of angleDifference runs on: the engine takes every step of it
\* that changes something
SpecFnFair == SpecFn /\ WF_AngleDifferenceCall(AngleDifferenceStep)

(***************************************************************************)
(* Properties of the queries                                               *)
(***************************************************************************)
\* a frame has been rendered: objects is the result of a query
Queried == frame.jd # Null

MapClasses == {SkyMapAppJs, SkyMapImprovedJs, SkyMapZoomJs, Part000}

\* The place of an object in definition order: the stars in catalog order,
\* then the planets in the order of this.planets, then the Moon.
DefinitionIndex(o) ==
    IF o.type = "star"
    THEN CHOOSE i \in 1..Len(getStars) : getStars[i].name = o.name
    ELSE IF o.type = "planet"
    THEN Len(getStars) + (CHOOSE i \in 1..Len(PLANETS) : PLANETS[i] = o.name)
    ELSE Len(getStars) + Len(PLANETS) + 1

Listed(name) == \E i \in DOMAIN objects : objects[i].name = name

\* C1: after a query every object of the result list has an altitude that is
\* a number strictly greater than 0; an object whose altitude is 0, negative
\* or NaN is not in the list.
C1_AltitudePositive ==
    \A i \in DOMAIN objects :
        /\ objects[i].altitude # NaN
        /\ objects[i].altitude > 0

\* C1 happens: NightSkyApp has run its query at a place where one star's
\* altitude came out NaN and another's not above 0, the list is not empty
\* and holds neither of the two.
C1_Witness ==
    /\ app = AppJs
    /\ Queried
    /\ objects # << >>
    /\ \E i \in DOMAIN stars : stars[i].altitude = NaN /\ ~Listed(stars[i].name)
    /\ \E j \in DOMAIN stars :
        /\ stars[j].altitude # NaN
        /\ stars[j].altitude <= 0
        /\ ~Listed(stars[j].name)

\* C2: after a query the result list is sorted non-decreasing by magnitude:
\* the magnitude of every entry is at most that of the entry after it.
C2_SortedByMagnitude ==
    \A i \in 1..(Len(objects) - 1) :
        objects[i].magnitude <= objects[i + 1].magnitude

\* C2 happens: a result list that holds stars, planets and the Moon, with a
\* star defined later in the catalog listed in front of one defined earlier.
C2_Witness ==
    /\ Queried
    /\ \E i, j, k \in DOMAIN objects :
        /\ objects[i].type = "star"
        /\ objects[j].type = "planet"
        /\ objects[k].type = "moon"
    /\ \E i \in 1..(Len(objects) - 1) :
        /\ objects[i].type = "star"
        /\ objects[i + 1].type = "star"
        /\ DefinitionIndex(objects[i]) > DefinitionIndex(objects[i + 1])

\* C7: in a result list objects of equal magnitude keep their definition
\* order: stars in catalog order, then the planets Mercury, Venus, Mars,
\* Jupiter, Saturn, then the Moon.
C7_TiesInDefinitionOrder ==
    \A i, j \in DOMAIN objects :
        (i < j /\ objects[i].magnitude = objects[j].magnitude)
            => DefinitionIndex(objects[i]) < DefinitionIndex(objects[j])

\* C7 happens: Betelgeuse (0.50), Mars (0.5) and Saturn (0.5) are all above
\* the horizon and listed one after the other in this order.
C7_Witness ==
    /\ Queried
    /\ \E i \in 1..(Len(objects) - 2) :
        /\ objects[i].name = "Betelgeuse"
        /\ objects[i + 1].name = "Mars"
        /\ objects[i + 2].name = "Saturn"
        /\ objects[i].magnitude = objects[i + 2].magnitude

\* Every body a query looks at, at the place (lat, lon) and the Julian Date
\* jd, with the horizontal coordinates of the engine: the stars of the
\* catalog, the five planets, the Moon.
Bodies(lat, lon, jd) ==
    SelectSeq(StarCandidates(getStars, lat, lon, jd, FALSE, FALSE)
              \o PlanetCandidates(lat, lon, jd)
              \o MoonCandidates(lat, lon, jd),
              LAMBDA o : TRUE)

\* Bodies at every place and every instant of the model, tabulated
Sky ==
    [loc \in Locations, c \in ClockValues |->
        Bodies(loc[1], loc[2], getJulianDate(c))] @@ << >>

\* Bodies for the frame the state holds
FrameBodies == Sky[<< latitude, longitude >>, frame.jd - UnixEpochJD]

Up(b) == b.altitude # NaN /\ b.altitude > 0

Times(b) == Cardinality({i \in DOMAIN objects : objects[i].name = b.name})

\* the direction NightSkyApp looked in at the frame's query
InFrameView(b) ==
    InFieldOfView(b, JsMod(frame.view[1] + compassOffset, 360000),
                  90000 - Abs(frame.view[2]))

\* C3 as stated: whichever the class, every star, planet and the Moon
\* whose altitude at the query's time and place is above 0 is in the result
\* exactly once, whatever the orientation of the device.
C3_CompleteEverywhere ==
    Queried =>
        \A k \in DOMAIN FrameBodies : Up(FrameBodies[k]) => Times(FrameBodies[k]) = 1

\* C3 amended: the query of NightSkyMap (both files) and of NightSkyMapZoom
\* in part_000 lists every star, planet and the Moon that is above the
\* horizon exactly once, whatever the orientation; NightSkyMapZoom in
\* sky-map-zoom.js lists every such star exactly once and no planet and no
\* Moon; NightSkyApp lists exactly once every such body that is also within
\* fov of the direction the device points in, and no other body.
C3_CompletePerClass ==
    Queried =>
        \A k \in DOMAIN FrameBodies :
            LET b == FrameBodies[k]
            IN  IF app = AppJs
                THEN Times(b) = (IF Up(b) /\ InFrameView(b) THEN 1 ELSE 0)
                ELSE IF app = SkyMapZoomJs
                THEN Times(b) = (IF Up(b) /\ b.type = "star" THEN 1 ELSE 0)
                ELSE Up(b) => Times(b) = 1

\* C3 happens: a map class has run its query after the device was turned,
\* with stars, a planet and the Moon above the horizon and in the list.
C3_Witness ==
    /\ app \in {SkyMapAppJs, SkyMapImprovedJs, Part000}
    /\ Queried
    /\ frame.view[3] # 0
    /\ \E k \in DOMAIN FrameBodies :
        FrameBodies[k].type = "planet" /\ Up(FrameBodies[k])
    /\ Listed("Moon")
    /\ \E i \in DOMAIN objects : objects[i].type = "star"

StarFields == {"id", "name", "ra", "dec", "magnitude", "spectralClass"}

\* C8 as stated: after a query every loaded star record has exactly the
\* fields and values it was loaded with.
C8_StarsUntouched == Queried => stars = getStars

\* C8 amended: the queries of NightSkyMap and NightSkyMapZoom leave every
\* star record as it was loaded; the query of NightSkyApp leaves the six
\* loaded fields of every star record as they were and sets two more on it,
\* altitude and azimuth.
C8_StarsKeepLoadedFields ==
    Queried =>
        /\ DOMAIN stars = DOMAIN getStars
        /\ \A i \in DOMAIN stars :
            /\ \A f \in StarFields : stars[i][f] = getStars[i][f]
            /\ DOMAIN stars[i] = IF app = AppJs
                                 THEN StarFields \cup {"altitude", "azimuth"}
                                 ELSE StarFields

\* C8 happens: NightSkyApp has run its query a second time on star records
\* that carried the coordinates of the query before.
C8_Witness ==
    /\ app = AppJs
    /\ Queried
    /\ frame.again
    /\ \E i \in DOMAIN stars : stars[i].altitude # NaN /\ stars[i].altitude > 0

\* C9 as stated: a query run again at the same Julian Date and place gives
\* the same list, whatever happened to the orientation in between.
C9_SameInputsSameResult ==
    [][(Queried /\ frame'.jd = frame.jd) => objects' = objects]_vars

\* C9 amended: a query of NightSkyMap or NightSkyMapZoom run again at the
\* same Julian Date and place gives the same list whatever the orientation
\* is; a query of NightSkyApp does so if alpha and beta are also the same.
C9_SameInputsSameResultPerClass ==
    [][(/\ Queried
        /\ frame'.jd = frame.jd
        /\ app = AppJs => (frame'.view[1] = frame.view[1]
                           /\ frame'.view[2] = frame.view[2]))
        => objects' = objects]_vars

\* C9 happens: a map class has run its query again at the Julian Date of
\* the frame before, after the device was turned, and listed something.
C9_Witness ==
    /\ app \in MapClasses
    /\ frame.again
    /\ frame.turned
    /\ objects # << >>

\* C10: within one rendered frame the clock is read once, and every
\* position used in the frame is derived from that one Julian Date.
C10_OneJulianDatePerFrame ==
    Queried => (frame.reads = 1 /\ frame.used = {frame.jd})

(***************************************************************************)
(* Properties of the engine's methods                                      *)
(***************************************************************************)
Returned(op) == call.op = op /\ call.done

\* C4: the magnitude that getPlanetMagnitude returns for each of the five
\* planets, and that getPlanetPosition attaches to it, is the constant of
\* the table (Mercury 0.0, Venus -4.0, Mars 0.5, Jupiter -2.5, Saturn 0.5)
\* at every Julian Date.
C4_MagnitudeIsTableConstant ==
    /\ (Returned("getPlanetMagnitude") /\ call.args[1] \in DOMAIN magnitudes)
        => call.result = magnitudes[call.args[1]]
    /\ (Returned("getPlanetPosition") /\ call.args[1] \in DOMAIN magnitudes)
        => call.result.magnitude = magnitudes[call.args[1]]

\* a name that is no planet of the tables and no inherited member either
UnknownName(name) == name \notin DOMAIN planets \cup ObjectPrototypeNames

\* C5 as stated: a lookup with a name that is not one of the five planets
\* reports "no such body" (null for the position, no number for the
\* magnitude) and never a default.
C5_UnknownNameIsNoSuchBody ==
    /\ (Returned("getPlanetPosition") /\ call.args[1] \notin DOMAIN planets)
        => call.result = NoSuchBody
    /\ (Returned("getPlanetMagnitude") /\ call.args[1] \notin DOMAIN planets)
        => call.result \in {Null, Undefined}

\* C5 amended: for a name that is neither one of the five planets nor a
\* member every object inherits, getPlanetPosition returns null and never a
\* default position, and getPlanetMagnitude returns the default 5.0.
C5_UnknownNameNullOrDefault ==
    /\ (Returned("getPlanetPosition") /\ UnknownName(call.args[1]))
        => call.result = NoSuchBody
    /\ (Returned("getPlanetMagnitude") /\ UnknownName(call.args[1]))
        => call.result = 500

\* C5 happens: a lookup has been made with the name Pluto.
C5_Witness ==
    \/ Returned("getPlanetPosition") /\ call.args[1] = "Pluto"
                                     /\ call.args[2] # NaN
    \/ Returned("getPlanetMagnitude") /\ call.args[1] = "Pluto"

InvalidInput == [error |-> "InvalidInput"]

OutOfDomain(lat) == lat = NaN \/ lat < -90000 \/ lat > 90000

\* the latitude on the near side of the pole that lat, taken beyond the
\* pole, comes to
OverThePole(lat) == IF lat > 0 THEN 180000 - lat ELSE -180000 - lat

\* C6 as stated: equatorialToHorizontal, and a query built on it, called
\* with a latitude outside [-90, 90] or with the Julian Date of a malformed
\* timestamp ends in InvalidInput and returns no coordinates.
C6_DomainViolationFails ==
    /\ (Returned("equatorialToHorizontal")
        /\ (OutOfDomain(call.args[3]) \/ call.args[5] = NaN))
        => call.result = InvalidInput
    /\ (Returned("calculateAllObjects")
        /\ (OutOfDomain(call.args[1]) \/ call.args[3] = NaN))
        => call.result = InvalidInput

\* C6 amended: equatorialToHorizontal has no InvalidInput condition and
\* always returns an altitude and an azimuth.  A latitude outside [-90, 90]
\* is used as it is and not clamped: a latitude beyond the pole gives the
\* altitude of the latitude as far on this side of it with the hour angle
\* turned by 180 degrees.  A NaN Julian Date or latitude gives NaN for both
\* coordinates, and a query at it returns the empty list.
C6_DomainViolationUsed ==
    /\ Returned("equatorialToHorizontal") =>
        /\ DOMAIN call.result = {"altitude", "azimuth"}
        /\ (call.args[3] = NaN \/ call.args[5] = NaN)
            => (call.result.altitude = NaN /\ call.result.azimuth = NaN)
        /\ (call.args[3] # NaN /\ call.args[5] # NaN /\ OutOfDomain(call.args[3]))
            => call.result.altitude =
                 equatorialToHorizontal(call.args[1] + 180000, call.args[2],
                                        OverThePole(call.args[3]), call.args[4],
                                        call.args[5]).altitude
    /\ (Returned("calculateAllObjects")
        /\ (call.args[1] = NaN \/ call.args[3] = NaN))
        => call.result = << >>

\* C6 happens: equatorialToHorizontal has returned an altitude above the
\* horizon for a latitude of 95 or -120 degrees.
C6_Witness ==
    /\ Returned("equatorialToHorizontal")
    /\ call.args[3] # NaN
    /\ OutOfDomain(call.args[3])
    /\ call.args[5] # NaN
    /\ call.result.altitude # NaN
    /\ call.result.altitude > 0


(***************************************************************************)
(* Ranges of the engine's results                                          *)
(***************************************************************************)
\* C11: for every Julian Date, before or after J2000, and every longitude in
\* [-180, 360) the value r that getLocalSiderealTime returns has
\* 0 <= r < 360.
C11_SiderealTimeInRange ==
    (Returned("getLocalSiderealTime") /\ call.args[1] # NaN)
        => (call.result >= 0 /\ call.result < 360000)

\* the arguments of a call are all numbers
FiniteArgs == \A i \in DOMAIN call.args : IsFinite(call.args[i])

\* C12: for all inputs the azimuth that equatorialToHorizontal returns lies
\* in [0, 360), 360 itself excluded, also where acos(cosAz) is 0 and
\* sin(hourAngle) > 0.
C12_AzimuthInRange ==
    (Returned("equatorialToHorizontal") /\ FiniteArgs
        /\ call.result.azimuth # NaN)
        => (call.result.azimuth >= 0 /\ call.result.azimuth < 360000)

\* the hour angle that a call of equatorialToHorizontal works with
HourAngle == NSub(getLocalSiderealTime(call.args[5], call.args[4]), call.args[1])

\* the body of the call is at the zenith: on the meridian, and its
\* declination is the latitude
AtZenith == call.args[2] = call.args[3] /\ JsMod(HourAngle, 360000) = 0

\* the observer of the call is at a pole
AtPole == Abs(call.args[3]) = 90000

\* C13: where the divisor of the azimuth, cos(lat) * cos(altitude), is zero
\* (observer at a pole, or body at the zenith), equatorialToHorizontal
\* returns a defined azimuth and never NaN.
C13_AzimuthDefined ==
    (Returned("equatorialToHorizontal") /\ FiniteArgs /\ (AtPole \/ AtZenith))
        => call.result.azimuth # NaN

\* C14: the asin that yields the altitude in equatorialToHorizontal and the
\* asin that yields the declination in getSunPosition and getMoonPosition
\* get an argument in [-1, 1], so that no altitude and no declination is NaN.
C14_InverseTrigArgumentsClamped ==
    /\ (Returned("equatorialToHorizontal") /\ FiniteArgs)
        => /\ Abs(SinAltitude(call.args[2], call.args[3], HourAngle)) <= Scale
           /\ call.result.altitude # NaN
    /\ ((Returned("getSunPosition") \/ Returned("getMoonPosition")) /\ FiniteArgs)
        => call.result.dec # NaN

\* getPlanetPosition has returned the position of one of the five planets
\* at a Julian Date that is a number
PlanetReturned ==
    /\ Returned("getPlanetPosition")
    /\ call.args[1] \in DOMAIN planets
    /\ call.args[2] # NaN

\* C15: for each of the five planets and every Julian Date, also before
\* J2000 (n negative), the right ascension that getPlanetPosition returns
\* lies in [0, 360).
C15_PlanetRightAscensionInRange ==
    PlanetReturned => (call.result.ra >= 0 /\ call.result.ra < 360000)

\* C16: for each of the five planets and every Julian Date the declination
\* that getPlanetPosition returns lies in [-90, 90].
C16_PlanetDeclinationInRange ==
    PlanetReturned => (call.result.dec >= -90000 /\ call.result.dec <= 90000)

\* C16 happens: a planet's declination has been computed for a date before
\* J2000, and it came out south of the equator.
C16_Witness ==
    /\ PlanetReturned
    /\ call.args[2] < J2000
    /\ call.result.dec < 0


\* C21: for every latitude in [-90, 90], a body whose hour angle is 0 and
\* whose declination is the observer's latitude gets altitude 90 from
\* equatorialToHorizontal (ra = 0, dec = 0, lat = 0 at local sidereal time 0
\* among them).
C21_ZenithAltitude90 ==
    (Returned("equatorialToHorizontal") /\ FiniteArgs
        /\ Abs(call.args[3]) <= 90000
        /\ call.args[2] = call.args[3]
        /\ HourAngle = 0)
        => call.result.altitude = 90000

\* a and b are the same angle modulo 360, up to the rounding of one
\* addition (one unit of the model)
SameAngle(a, b) == (a - b) % 360000 \in { 0, 1, 359999 }

\* C22: getLocalSiderealTime returns (theta0 + longitude) mod 360 for
\* theta0 = 280.46061837 + 360.98564736629 * n + 0.000387933 * T^2
\* - T^3 / 38710000, n = jd - 2451545.0, T = n / 36525; at jd = 2451545.0
\* and longitude 0 it returns 280.46061837; and at one jd, d degrees more of
\* longitude move the result by d modulo 360.  Equalities of angles are up
\* to the rounding of the additions.
C22_SiderealTimeFormula ==
    (Returned("getLocalSiderealTime") /\ FiniteArgs) =>
        /\ SameAngle(call.result,
                     SiderealAngle(call.args[1] - J2000) + call.args[2])
        /\ (call.args[1] = J2000 /\ call.args[2] = 0) => call.result = 280461
        /\ \A d \in LongitudeShifts :
              SameAngle(getLocalSiderealTime(call.args[1], call.args[2] + d),
                        call.result + d)

\* C22 happens: the sidereal time has been computed at J2000.0 for
\* longitude 0, and a shift of the longitude takes it round the circle.
C22_Witness ==
    /\ Returned("getLocalSiderealTime")
    /\ call.args[1] = J2000
    /\ call.args[2] = 0
    /\ call.result = 280461
    /\ \E d \in LongitudeShifts : call.result + d >= 360000

(***************************************************************************)
(* The compiled-in tables                                                  *)
(***************************************************************************)
\* the star indices that the lines of a table of constellations use
IndicesOf(table) ==
    UNION { UNION { { table[c][l][k] : k \in DOMAIN table[c][l] }
                    : l \in DOMAIN table[c] }
            : c \in DOMAIN table }

\* C18: every star index of a constellation line, in CONSTELLATIONS and in
\* CONSTELLATIONS_EXTENDED before and after the merge, is an index i of the
\* loaded catalog, 0 <= i < number of entries, and so resolves to a star
\* record.
C18_LineIndicesResolve ==
    Queried =>
        \A i \in IndicesOf(CONSTELLATIONS) \cup IndicesOf(CONSTELLATIONS_EXTENDED)
                  \cup IndicesOf(MergedLines) :
            /\ i >= 0
            /\ i < Len(stars)
            /\ stars[i + 1].id = i

HeardOrientation == HearDeviceOrientation /\ heard'.type = "deviceorientation"

\* C24: in NightSkyMap of sky-map-app.js, once a deviceorientationabsolute
\* event with a non-null alpha has set compassHeading, no later
\* deviceorientation event changes compassHeading, whatever the heading,
\* 0 (due north) included.
C24_OrientationOnlyFallback ==
    [][ (app = SkyMapAppJs /\ heard.absolute # Null /\ HeardOrientation)
            => compassHeading' = compassHeading ]_vars

\* the value the fallback listener of sky-map-improved.js takes from the
\* event it has just been handed
FallbackHeading(event, before) ==
    IF event.webkit # Undefined /\ event.webkit # Null THEN event.webkit
    ELSE IF event.alpha # Null THEN event.alpha
    ELSE before

\* C25: in NightSkyMap of sky-map-improved.js, for every interleaving of the
\* two kinds of events: after the first deviceorientationabsolute event with
\* a non-null alpha, compassHeading equals the alpha of the most recent such
\* event and useWebkit is not assigned any more; before it, a
\* deviceorientation event sets compassHeading to webkitCompassHeading when
\* that is defined and non-null, else to alpha when non-null, else leaves it
\* as it is.
C25_AbsoluteWinsEveryInterleaving ==
    [][ app = SkyMapImprovedJs =>
          /\ heard'.absolute # Null => compassHeading' = heard'.absolute
          /\ heard.absolute # Null => useWebkit' = useWebkit
          /\ (heard.absolute = Null /\ HeardOrientation)
                => compassHeading' = FallbackHeading(heard', compassHeading) ]_vars

\* an absolute heading of 120 was heard, then a deviceorientation event with
\* alpha null and a webkitCompassHeading of 250, and the heading is still 120
C25_Witness ==
    /\ app = SkyMapImprovedJs
    /\ heard.absolute = 120000
    /\ heard.type = "deviceorientation"
    /\ heard.webkit = 250000
    /\ compassHeading = 120000
    /\ ~useWebkit

LiftedLast ==
    /\ app = Part000
    /\ Len(touch.touches) = 1
    /\ touch'.touches = << >>

\* C23: in NightSkyMapZoom a single-finger drag (touchstart, touchmove
\* events that pan the view, touchend) is not treated as a tap: it leaves
\* selectedConstellation as it was before the gesture, at any zoom level.
C23_DragIsNotATap ==
    [][ (LiftedLast /\ touch.kind = "drag")
            => gesture'.selectedConstellation = gesture.selectedConstellation ]_vars

\* a finger that was put down and lifted where it was: a tap
TapStep == LiftedLast /\ touch.kind = "tap"

\* the names of the list constellationsInView at the tap
NamesInView == { gesture.constellationsInView[i].name :
                   i \in DOMAIN gesture.constellationsInView }

\* the tap is less than 40 pixels from a star of constellation name that is
\* on the map
TapNear(onScreen, name) ==
    \E o \in StarOccurrences(tables.CONSTELLATIONS[name]) :
        LET pos == onScreen[tables.CONSTELLATIONS[name][o[1]][o[2]]]
            dx == touch.touches[1][1] - pos.x
            dy == touch.touches[1][2] - pos.y
        IN  /\ pos.found
            /\ pos.x # NaN
            /\ dx * dx + dy * dy < 40 * 40

\* the rules of C26 for one tap, the stars being where onScreen says
SelectionRules(onScreen) ==
    /\ gesture.zoomLevel < 1500 => gesture'.selectedConstellation = NullName
    /\ gesture.zoomLevel >= 1500 =>
         /\ \A name \in NamesInView :
              TapNear(onScreen, name) =>
                  gesture'.selectedConstellation =
                      IF gesture.selectedConstellation = name
                      THEN NullName ELSE name
         /\ (\A name \in NamesInView : ~TapNear(onScreen, name))
                => gesture'.selectedConstellation = NullName
    /\ gesture'.selectedConstellation \in NamesInView \cup { NullName }

\* C26: handleTap follows the selection rules: a tap while zoomLevel < 1.5
\* leaves selectedConstellation null; at zoomLevel >= 1.5 a tap within 40
\* pixels of a star of a constellation in view selects that constellation,
\* or deselects it if it was the selected one; a tap that hits no
\* constellation in view deselects; after any tap the selection is null or
\* the name of a constellation that was in constellationsInView at the tap.
C26_TapSelectionRules ==
    [][ TapStep =>
          SelectionRules(StarsOnScreen(gesture, compassHeading, objects,
                                       tables.CONSTELLATIONS)) ]_vars

\* the same rules with the order of the list in them: of the constellations
\* of the list that the tap is near, the first one is toggled
FirstHitRules(onScreen) ==
    LET near == { i \in DOMAIN gesture.constellationsInView :
                    TapNear(onScreen, gesture.constellationsInView[i].name) }
        first == gesture.constellationsInView[
                     CHOOSE i \in near : \A j \in near : i <= j].name
    IN  /\ gesture.zoomLevel < 1500 => gesture'.selectedConstellation = NullName
        /\ (gesture.zoomLevel >= 1500 /\ near # {}) =>
             gesture'.selectedConstellation =
                 IF gesture.selectedConstellation = first THEN NullName ELSE first
        /\ (gesture.zoomLevel >= 1500 /\ near = {}) =>
             gesture'.selectedConstellation = NullName
        /\ gesture'.selectedConstellation \in NamesInView \cup { NullName }

\* C26, amended: a tap while zoomLevel < 1.5 leaves selectedConstellation
\* null; at zoomLevel >= 1.5 a tap less than 40 pixels from a star on the map
\* of one or more constellations of constellationsInView toggles the first
\* of these in the order of the list, and no other; a tap near none
\* deselects; the selection after a tap is null or a name of the list.
C26_TapTogglesFirstHit ==
    [][ TapStep =>
          FirstHitRules(StarsOnScreen(gesture, compassHeading, objects,
                                      tables.CONSTELLATIONS)) ]_vars

\* a tap on a star of Cassiopeia that is 16 pixels from one of UrsaMajor,
\* both in the list and UrsaMajor before Cassiopeia: UrsaMajor is selected
C26_Witness ==
    /\ app = Part000
    /\ touch.touches = << >>
    /\ gesture.lastTouchX = 227
    /\ gesture.lastTouchY = 349
    /\ gesture.zoomLevel = 1690
    /\ gesture.panX = 0
    /\ gesture.panY = 0
    /\ gesture.selectedConstellation = "UrsaMajor"
    /\ "Cassiopeia" \in NamesInView

(***************************************************************************)
(* The life of the app                                                     *)
(***************************************************************************)
\* the attempts that have got as far as render()
Rendering == { i \in DOMAIN life.attempts : life.attempts[i] = "rendering" }

\* the attempts whose location request failed or whose permission was denied
Failed == { i \in DOMAIN life.attempts : life.attempts[i] = "failed" }

C29_DestroyStopsRendering ==
    /\ Cardinality(life.pending) <= 1
    /\ ~life.late

(***************************************************************************)
\* C30: NightSkyApp.angleDifference(a, b) returns for all finite a and b,
\* with a value d, -180 <= d <= 180, that is a - b modulo 360; and so the
\* azimuths 359 and 1 are 2 degrees apart for the field-of-view test.
C30_AngleDifferenceReturns ==
    /\ MathAbs(angleDifference(359000, 1000)) = 2000
    /\ (call.op = "angleDifference")
         ~> /\ call.op = "angleDifference"
            /\ call.done
            /\ call.result >= -180000
            /\ call.result <= 180000
            /\ (call.result - DSub(call.args[1], call.args[2])) % 360000 = 0

=============================================================================
